---- MODULE Spec2Model ----
(***************************************************************************)
(* ChatTMT: the session store (app/core/session.py), the summarizer        *)
(* (app/modules/summarizer.py) and the turn pipeline                       *)
(* (app/core/pipeline.py) as a state machine, with the context assembler   *)
(* (app/modules/augmenter.py) and the session files of save and load.      *)
(*                                                                         *)
(* A text is a sequence of words; the empty text is <<>> and the word " "  *)
(* stands for white space that str.strip() removes.  An Optional value is  *)
(* a sequence of length at most one: None is <<>>, a present x is <<x>>.   *)
(* An oracle response is named by the kind of text the oracle returned:    *)
(* "raise" is a transport failure of llm_client.chat, "invalid" a text     *)
(* json.loads rejects, "list" a JSON text whose value is not an object,    *)
(* every other name a JSON object (JsonObject gives its keys).             *)
(***************************************************************************)
EXTENDS Integers, Sequences, FiniteSets, TLC

VARIABLES
    config,                 \* the Config singleton read by session.py and pipeline.py
    state,                  \* SessionManager.state: the SessionState
    llm_client,             \* SessionManager.llm_client is bound
    session_id,             \* SessionManager.state.session_id, None before a manager is built
    disk,                   \* the file of every session id in config.SESSION_DATA_DIR
    pc,                     \* position of the running call
    op,                     \* the call that is running
    query,                  \* the argument of the running call: process(query)
    was_summarized,         \* local of process
    rewrite_result,         \* local of process
    augmented_context,      \* local of process
    clarification_result,   \* local of process
    result,                 \* what the call returned or raised
    pre,                    \* the SessionState when the call started
    compaction,             \* what check_and_summarize did in this call
    oracle,                 \* the responses llm.chat gave to the stages of this call, and
                            \* the number of llm.chat calls the call has made
    add_turn_calls,         \* history: number of add_turn calls
    turns_since_summarization, \* history: add_turn calls since the last summarization
    kept_by_summarization,  \* history: messages the last summarization kept
    decide_streak           \* history: consecutive turns the decide stage asked to clarify

sessionVars == <<config, state, llm_client, session_id, disk>>
localVars == <<query, was_summarized, rewrite_result, augmented_context, clarification_result,
               oracle>>
historyVars == <<add_turn_calls, turns_since_summarization, kept_by_summarization, decide_streak>>
vars == <<config, state, llm_client, session_id, disk, pc, op, query, was_summarized, rewrite_result,
          augmented_context, clarification_result, result, pre, compaction, oracle,
          add_turn_calls, turns_since_summarization, kept_by_summarization, decide_streak>>

(***************************************************************************)
(* Bounds of the model.                                                    *)
(***************************************************************************)
MaxTurns == 4               \* recorded turns per session
MaxRoundsBound == 2         \* MAX_CLARIFICATION_ROUNDS ranges over 0..MaxRoundsBound
MaxKeepRecent == 2          \* KEEP_RECENT_N ranges over 1..MaxKeepRecent
RawThreshold == 2           \* TOKEN_THRESHOLD_RAW, in words
SummaryThreshold == 3       \* SUMMARY_TOKEN_THRESHOLD, in words
LightContextSize == 2       \* LIGHT_CONTEXT_SIZE
RecentContextSize == 3      \* RECENT_CONTEXT_SIZE
MaxWindow == 4              \* get_recent_messages(count) is called with count in 1..MaxWindow
MaxLogLen == 6              \* add_turn is called on logs shorter than this

None == <<>>
Some(x) == <<x>>

(***************************************************************************)
(* Python helpers.                                                         *)
(***************************************************************************)
\* s[start:] of a list, start possibly negative
PySliceFrom(s, start) ==
    LET i == IF start < 0
             THEN (IF Len(s) + start < 0 THEN 0 ELSE Len(s) + start)
             ELSE (IF start > Len(s) THEN Len(s) ELSE start)
    IN  SubSeq(s, i + 1, Len(s))

\* mutant: the oldest n entries
LastN_oldest(s, n) == SubSeq(s, 1, IF n > Len(s) THEN Len(s) ELSE n)

\* s[-n:]
LastN(s, n) == PySliceFrom(s, 0 - n)

\* s[:n] for n >= 0
FirstN(s, n) == SubSeq(s, 1, IF n > Len(s) THEN Len(s) ELSE n)

\* the words str.strip() removes
Whitespace == {" ", "\n", "\n\n"}

RECURSIVE lstrip(_)
lstrip(text) ==
    IF text # <<>> /\ Head(text) \in Whitespace THEN lstrip(Tail(text)) ELSE text

RECURSIVE rstrip(_)
rstrip(text) ==
    IF text # <<>> /\ text[Len(text)] \in Whitespace
    THEN rstrip(SubSeq(text, 1, Len(text) - 1))
    ELSE text

strip(text) == rstrip(lstrip(text))

\* dict.get(key, default) on a parsed JSON object
Get(d, k, default) == IF k \in DOMAIN d THEN d[k] ELSE default

(***************************************************************************)
(* schemas.py                                                              *)
(***************************************************************************)
Message(role, content, timestamp) ==
    [role |-> role, content |-> content, timestamp |-> timestamp]

UserProfile(prefs, constraints, background) ==
    [prefs |-> prefs, constraints |-> constraints, background |-> background]

SessionSummary(user_profile, current_goal, topics, key_facts, decisions, open_questions, todos) ==
    [user_profile |-> user_profile, current_goal |-> current_goal, topics |-> topics,
     key_facts |-> key_facts, decisions |-> decisions,
     open_questions |-> open_questions, todos |-> todos]

SessionState ==
    [raw_messages |-> <<>>, summary |-> None, summarized_up_to_turn |-> None,
     total_turns |-> 0, clarification_count |-> 0]

(***************************************************************************)
(* tokenizer.py                                                            *)
(***************************************************************************)
count_tokens(text) == IF text = <<>> THEN 0 ELSE Len(text)

\* " ".join(m.content for m in messages)
RECURSIVE JoinContents(_)
JoinContents(messages) ==
    IF messages = <<>> THEN <<>>
    ELSE Head(messages).content \o JoinContents(Tail(messages))

\* summary.model_dump_json(): the skeleton of keys and every stored text
model_dump_json(s) ==
    <<"{}">> \o s.user_profile.prefs \o s.user_profile.constraints
             \o s.user_profile.background \o s.current_goal \o s.topics
             \o s.key_facts \o s.decisions \o s.open_questions \o s.todos

(***************************************************************************)
(* The oracle's responses.                                                 *)
(***************************************************************************)
SummaryResponses == {"raise", "invalid", "list", "empty", "small", "big"}
RewriteResponses == {"raise", "invalid", "list", "clear", "resolved", "same", "unflagged"}
DecideResponses == {"raise", "invalid", "list", "empty", "no", "no1", "yes0", "yes1", "yes4"}
AnswerResponses == {"raise", "text", "blank"}

Queries == {<<"q">>}
REWRITTEN == <<"rw", "rw">>
ANSWER_TEXT == <<" ", "a", " ">>
BLANK_TEXT == <<" ">>
APOLOGY == <<"I understand you need help", "rephrasing">>
DEFAULT_QUESTION == <<"Could you please provide more details about your request?">>
HEADER == <<"I need a bit more information:">>
Numbering == <<"1.", "2.", "3.", "4.">>

\* json.loads raises JSONDecodeError
JsonInvalid(response) == response = "invalid"

\* json.loads returns a value that is not a dict: .get raises AttributeError
JsonNotObject(response) == response = "list"

\* the object json.loads returns for a summary response
SummaryObject(response) ==
    CASE response = "small" ->
           [current_goal |-> Some("goal"), topics |-> <<"t1">>]
      [] response = "big" ->
           [user_profile |-> [prefs |-> <<"p1">>, background |-> Some("dev")],
            current_goal |-> Some("goal"), topics |-> <<"t1", "t2">>,
            key_facts |-> <<"f1">>, decisions |-> <<"d1">>,
            open_questions |-> <<"o1">>, todos |-> <<"x1">>]
      [] OTHER -> <<>>

(***************************************************************************)
(* summarizer.py                                                           *)
(***************************************************************************)
_dict_to_session_summary(data) ==
    LET user_profile ==
            IF "user_profile" \in DOMAIN data
            THEN UserProfile(Get(data.user_profile, "prefs", <<>>),
                             Get(data.user_profile, "constraints", <<>>),
                             Get(data.user_profile, "background", None))
            ELSE UserProfile(<<>>, <<>>, None)
    IN  SessionSummary(user_profile,
                       Get(data, "current_goal", None),
                       Get(data, "topics", <<>>),
                       Get(data, "key_facts", <<>>),
                       Get(data, "decisions", <<>>),
                       Get(data, "open_questions", <<>>),
                       Get(data, "todos", <<>>))

\* mutant: a transport failure is caught like an unparsable response
SummaryCallRaises_caught(response) == JsonNotObject(response)

\* the call raises: the transport failed, or the parsed value has no .get
SummaryCallRaises(response) == response = "raise" \/ JsonNotObject(response)

\* summarize_messages, given the response of llm_client.chat (when it returns)
summarize_messages(response) ==
    IF JsonInvalid(response)
    THEN _dict_to_session_summary(<<>>)
    ELSE _dict_to_session_summary(SummaryObject(response))

\* compress_summary, given the response of llm_client.chat (when it returns)
compress_summary(old_summary, response) ==
    IF JsonInvalid(response)
    THEN old_summary
    ELSE _dict_to_session_summary(SummaryObject(response))

(***************************************************************************)
(* session.py: SessionManager                                              *)
(***************************************************************************)
\* datetime.now(): the clock reads the number of the turn being added
Now(st) == st.total_turns + 1

\* mutant: total_turns counts messages, not turns
add_turn_per_message(st, user_message, assistant_message) ==
    [st EXCEPT !.raw_messages = @ \o <<Message("user", user_message, Some(Now(st))),
                                       Message("assistant", assistant_message, Some(Now(st)))>>,
               !.total_turns = @ + 2]

\* mutant: the assistant message is not appended
add_turn_user_only(st, user_message, assistant_message) ==
    [st EXCEPT !.raw_messages = @ \o <<Message("user", user_message, Some(Now(st)))>>,
               !.total_turns = @ + 1]

\* mutant: the clock is read again for the assistant message
add_turn_two_clocks(st, user_message, assistant_message) ==
    [st EXCEPT !.raw_messages = @ \o <<Message("user", user_message, Some(Now(st))),
                                       Message("assistant", assistant_message,
                                               Some(Now(st) + 1))>>,
               !.total_turns = @ + 1]

add_turn(st, user_message, assistant_message) ==
    [st EXCEPT !.raw_messages = @ \o <<Message("user", user_message, Some(Now(st))),
                                       Message("assistant", assistant_message, Some(Now(st)))>>,
               !.total_turns = @ + 1]

\* add_turn called with texts that may be None: Message(content=None) raises
\* ValidationError, the first one before anything is appended, the second one
\* after the user message has been appended
add_turn_nullable(st, user_message, assistant_message) ==
    IF user_message = None
    THEN [state |-> st, raised |-> TRUE]
    ELSE IF assistant_message = None
    THEN [state |-> [st EXCEPT !.raw_messages =
                        @ \o <<Message("user", user_message[1], Some(Now(st)))>>],
          raised |-> TRUE]
    ELSE [state |-> add_turn(st, user_message[1], assistant_message[1]), raised |-> FALSE]

increment_clarification(st) ==
    [st EXCEPT !.clarification_count = @ + 1]

\* mutant: the counter is not reset
reset_clarification_kept(st) == st

reset_clarification(st) ==
    [st EXCEPT !.clarification_count = 0]

raw_tokens(st) == count_tokens(JoinContents(st.raw_messages))

summary_tokens(st) ==
    IF st.summary # None THEN count_tokens(model_dump_json(st.summary[1])) ELSE 0

\* mutant: summarized_up_to_turn counts the messages that were summarized
_perform_summarization_counts_messages(st, response) ==
    [st EXCEPT !.raw_messages = LastN(@, config.KEEP_RECENT_N),
               !.summary = Some(summarize_messages(response)),
               !.summarized_up_to_turn = Some(Len(st.raw_messages))]

\* mutant: the oldest entries are kept instead of the most recent
_perform_summarization_oldest(st, response) ==
    [st EXCEPT !.raw_messages = FirstN(@, config.KEEP_RECENT_N),
               !.summary = Some(summarize_messages(response)),
               !.summarized_up_to_turn = Some(st.total_turns)]

\* mutant: the log is not truncated
_perform_summarization_keep_all(st, response) ==
    [st EXCEPT !.summary = Some(summarize_messages(response)),
               !.summarized_up_to_turn = Some(st.total_turns)]

\* mutant: an unparsable response clears the summary
_perform_summarization_null(st, response) ==
    [st EXCEPT !.raw_messages = LastN(@, config.KEEP_RECENT_N),
               !.summary = IF JsonInvalid(response) THEN None
                           ELSE Some(summarize_messages(response)),
               !.summarized_up_to_turn = Some(st.total_turns)]

_perform_summarization(st, response) ==
    [st EXCEPT !.raw_messages = LastN(@, config.KEEP_RECENT_N),
               !.summary = Some(summarize_messages(response)),
               !.summarized_up_to_turn = Some(st.total_turns)]

\* mutant: compression also truncates the log and moves summarized_up_to_turn
_perform_compression_truncating(st, response) ==
    IF st.summary = None
    THEN st
    ELSE [st EXCEPT !.summary = Some(compress_summary(st.summary[1], response)),
                    !.raw_messages = LastN(@, config.KEEP_RECENT_N),
                    !.summarized_up_to_turn = Some(st.total_turns)]

_perform_compression(st, response) ==
    IF st.summary = None
    THEN st
    ELSE [st EXCEPT !.summary = Some(compress_summary(st.summary[1], response))]

\* mutant: summarization is triggered at the threshold, not above it
CompactionDue_at_threshold(st, llm) ==
    IF ~llm THEN "none"
    ELSE IF raw_tokens(st) >= config.TOKEN_THRESHOLD_RAW THEN "summarization"
    ELSE IF st.summary # None /\ summary_tokens(st) > config.SUMMARY_TOKEN_THRESHOLD
         THEN "compression"
    ELSE "none"

\* mutant: the missing oracle is not checked
CompactionDue_unbound(st, llm) ==
    IF raw_tokens(st) > config.TOKEN_THRESHOLD_RAW THEN "summarization"
    ELSE IF st.summary # None /\ summary_tokens(st) > config.SUMMARY_TOKEN_THRESHOLD
         THEN "compression"
    ELSE "none"

\* which branch of check_and_summarize is taken
CompactionDue(st, llm) ==
    IF ~llm THEN "none"
    ELSE IF raw_tokens(st) > config.TOKEN_THRESHOLD_RAW THEN "summarization"
    ELSE IF st.summary # None /\ summary_tokens(st) > config.SUMMARY_TOKEN_THRESHOLD
         THEN "compression"
    ELSE "none"

\* no call of the summarizer or of the compressor
NoCall == [made |-> FALSE, messages |-> <<>>, existing_summary |-> None]

\* summarize_messages(messages=raw_messages, existing_summary=summary), called
\* on the session as _perform_summarization finds it
SummarizerCall(st) ==
    [made |-> TRUE, messages |-> st.raw_messages, existing_summary |-> st.summary]

\* compress_summary(old_summary=summary, new_messages=[])
CompressorCall(st) ==
    [made |-> TRUE, messages |-> <<>>, existing_summary |-> st.summary]

\* mutant: the log is cut to the recent entries before the summarizer is called
check_and_summarize_cut_first(st, llm, response) ==
    LET due == CompactionDue(st, llm)
        cut == [st EXCEPT !.raw_messages = LastN(@, config.KEEP_RECENT_N)]
    IN
    IF due = "none"
    THEN [state |-> st, ret |-> FALSE, raised |-> FALSE, fired |-> "none",
          response |-> response, call |-> NoCall]
    ELSE IF due = "summarization"
    THEN IF SummaryCallRaises(response)
         THEN [state |-> cut, ret |-> FALSE, raised |-> TRUE, fired |-> "none",
               response |-> response, call |-> SummarizerCall(cut)]
         ELSE [state |-> _perform_summarization(st, response), ret |-> TRUE,
               raised |-> FALSE, fired |-> "summarization", response |-> response,
               call |-> SummarizerCall(cut)]
    ELSE IF SummaryCallRaises(response)
    THEN [state |-> st, ret |-> FALSE, raised |-> TRUE, fired |-> "none",
          response |-> response, call |-> CompressorCall(st)]
    ELSE [state |-> _perform_compression(st, response), ret |-> TRUE, raised |-> FALSE,
          fired |-> "compression", response |-> response, call |-> CompressorCall(st)]

\* check_and_summarize: the state it leaves, what it returns, whether it
\* raises, and the call of the summarizer or compressor it made
check_and_summarize(st, llm, response) ==
    LET due == CompactionDue(st, llm) IN
    IF due = "none"
    THEN [state |-> st, ret |-> FALSE, raised |-> FALSE, fired |-> "none",
          response |-> response, call |-> NoCall]
    ELSE IF due = "summarization"
    THEN IF SummaryCallRaises(response)
         THEN [state |-> st, ret |-> FALSE, raised |-> TRUE, fired |-> "none",
               response |-> response, call |-> SummarizerCall(st)]
         ELSE [state |-> _perform_summarization(st, response), ret |-> TRUE,
               raised |-> FALSE, fired |-> "summarization", response |-> response,
               call |-> SummarizerCall(st)]
    ELSE IF SummaryCallRaises(response)
    THEN [state |-> st, ret |-> FALSE, raised |-> TRUE, fired |-> "none",
          response |-> response, call |-> CompressorCall(st)]
    ELSE [state |-> _perform_compression(st, response), ret |-> TRUE, raised |-> FALSE,
          fired |-> "compression", response |-> response, call |-> CompressorCall(st)]

\* get_recent_messages(count=None)
get_recent_messages(st, count) ==
    LastN(st.raw_messages, IF count = None THEN config.RECENT_CONTEXT_SIZE ELSE count[1])

\* mutant: the light context is the log as it was before the compaction check
get_light_context_stale(st) ==
    LastN(pre[1].state.raw_messages, config.LIGHT_CONTEXT_SIZE)

get_light_context(st) == LastN(st.raw_messages, config.LIGHT_CONTEXT_SIZE)

\* the responses the summarizer/compressor oracle can give to this call
CompactionResponses(st, llm) ==
    IF CompactionDue(st, llm) = "none" THEN {"unused"} ELSE SummaryResponses

(***************************************************************************)
(* rewriter.py                                                             *)
(***************************************************************************)
ContextFlags == {"use_user_profile", "use_current_goal", "use_topics", "use_key_facts",
                 "use_decisions", "use_open_questions", "use_todos"}

\* ContextUsage(**flags), every flag False by default
ContextUsage(data) == [f \in ContextFlags |-> Get(data, f, FALSE)]

RewriteResult(original_query, is_ambiguous, rewritten_query, referenced_messages, context_usage) ==
    [original_query |-> original_query, is_ambiguous |-> is_ambiguous,
     rewritten_query |-> rewritten_query, referenced_messages |-> referenced_messages,
     context_usage |-> context_usage]

\* the object json.loads returns for a rewrite response to `q`
RewriteObject(response, q) ==
    CASE response = "clear" ->
           [is_ambiguous |-> FALSE, rewritten_query |-> None,
            context_usage |-> [use_user_profile |-> TRUE]]
      [] response = "resolved" ->
           [is_ambiguous |-> TRUE, rewritten_query |-> Some(REWRITTEN),
            context_usage |-> [use_topics |-> TRUE, use_key_facts |-> TRUE]]
      [] response = "same" ->
           [is_ambiguous |-> TRUE, rewritten_query |-> Some(<<" ">> \o q)]
      [] response = "unflagged" ->
           [rewritten_query |-> Some(REWRITTEN)]
      [] OTHER -> <<>>

\* truth value of an Optional[str]
Truthy(opt) == opt # None /\ opt[1] # <<>>

_dict_to_rewrite_result(data, original_query, recent_messages) ==
    RewriteResult(original_query,
                  Get(data, "is_ambiguous", FALSE),
                  Get(data, "rewritten_query", None),
                  IF Get(data, "is_ambiguous", FALSE)
                  THEN LastN(recent_messages, config.LIGHT_CONTEXT_SIZE)
                  ELSE <<>>,
                  ContextUsage(Get(data, "context_usage", <<>>)))

RewriteCallRaises(response) == response = "raise" \/ JsonNotObject(response)

\* mutant: the fallback asks for the user profile
rewrite_query_profile_fallback(q, recent_messages, response) ==
    IF JsonInvalid(response)
    THEN RewriteResult(q, FALSE, None, <<>>, ContextUsage([use_user_profile |-> TRUE]))
    ELSE LET r == _dict_to_rewrite_result(RewriteObject(response, q), q, recent_messages)
         IN  IF Truthy(r.rewritten_query) /\ strip(r.rewritten_query[1]) = strip(q)
             THEN [r EXCEPT !.rewritten_query = None]
             ELSE r

\* rewrite_query, given the response of llm_client.chat (when it returns)
rewrite_query(q, recent_messages, response) ==
    IF JsonInvalid(response)
    THEN RewriteResult(q, FALSE, None, <<>>, ContextUsage(<<>>))
    ELSE LET r == _dict_to_rewrite_result(RewriteObject(response, q), q, recent_messages)
         IN  IF Truthy(r.rewritten_query) /\ strip(r.rewritten_query[1]) = strip(q)
             THEN [r EXCEPT !.rewritten_query = None]
             ELSE r

(***************************************************************************)
(* augmenter.py                                                            *)
(***************************************************************************)
FieldOrder == <<"user_profile", "current_goal", "topics", "key_facts",
                "decisions", "open_questions", "todos">>

\* the condition under which augment_context records field `f`
FieldUsed(f, context_usage, s) ==
    CASE f = "user_profile" -> context_usage.use_user_profile
      [] f = "current_goal" -> context_usage.use_current_goal /\ s.current_goal # None
      [] f = "topics" -> context_usage.use_topics /\ s.topics # <<>>
      [] f = "key_facts" -> context_usage.use_key_facts /\ s.key_facts # <<>>
      [] f = "decisions" -> context_usage.use_decisions /\ s.decisions # <<>>
      [] f = "open_questions" -> context_usage.use_open_questions /\ s.open_questions # <<>>
      [] OTHER -> context_usage.use_todos /\ s.todos # <<>>

\* mutant: the separator is appended after every part
RECURSIVE JoinTexts_trailing(_, _)
JoinTexts_trailing(parts, sep) ==
    IF parts = <<>> THEN <<>>
    ELSE parts[1] \o <<sep>> \o JoinTexts_trailing(Tail(parts), sep)

\* sep.join(parts) of a list of texts
RECURSIVE JoinTexts(_, _)
JoinTexts(parts, sep) ==
    IF parts = <<>> THEN <<>>
    ELSE IF Len(parts) = 1 THEN parts[1]
    ELSE parts[1] \o <<sep>> \o JoinTexts(Tail(parts), sep)

\* ", ".join(items)
CommaList(items) == JoinTexts([i \in 1..Len(items) |-> <<items[i]>>], ",")

\* "\n".join(f"- {item}" for item in items)
Bullets(items) == JoinTexts([i \in 1..Len(items) |-> <<"-", items[i]>>], "\n")

\* the lines of the USER PROFILE block
ProfileParts(p) ==
    (IF p.prefs # <<>> THEN << <<"Preferences:">> \o CommaList(p.prefs) >> ELSE <<>>)
    \o (IF p.constraints # <<>>
        THEN << <<"Constraints:">> \o CommaList(p.constraints) >> ELSE <<>>)
    \o (IF p.background # None THEN << <<"Background:", p.background[1]>> >> ELSE <<>>)

\* the condition under which augment_context appends a block for field `f`
FieldHasBlock(f, context_usage, s) ==
    /\ FieldUsed(f, context_usage, s)
    /\ f = "user_profile" => ProfileParts(s.user_profile) # <<>>

\* the label of the block of field `f`
FieldLabel(f) ==
    CASE f = "user_profile" -> "USER PROFILE:"
      [] f = "current_goal" -> "CURRENT GOAL:"
      [] f = "topics" -> "TOPICS DISCUSSED:"
      [] f = "key_facts" -> "KEY FACTS:"
      [] f = "decisions" -> "DECISIONS MADE:"
      [] f = "open_questions" -> "OPEN QUESTIONS:"
      [] OTHER -> "TODOS:"

\* the block augment_context appends for field `f`
FieldBlock(f, s) ==
    CASE f = "user_profile" ->
           <<FieldLabel(f), "\n">> \o JoinTexts(ProfileParts(s.user_profile), "\n")
      [] f = "current_goal" -> <<FieldLabel(f), s.current_goal[1]>>
      [] f = "topics" -> <<FieldLabel(f)>> \o CommaList(s.topics)
      [] f = "key_facts" -> <<FieldLabel(f), "\n">> \o Bullets(s.key_facts)
      [] f = "decisions" -> <<FieldLabel(f), "\n">> \o Bullets(s.decisions)
      [] f = "open_questions" -> <<FieldLabel(f), "\n">> \o Bullets(s.open_questions)
      [] OTHER -> <<FieldLabel(f), "\n">> \o Bullets(s.todos)

\* msg.role.upper() followed by the colon
RoleLabel(role) == IF role = "user" THEN "USER:" ELSE "ASSISTANT:"

\* the lines f"{msg.role.upper()}: {msg.content}\n" of the recent messages
RECURSIVE MessageLines(_)
MessageLines(messages) ==
    IF messages = <<>> THEN <<>>
    ELSE <<RoleLabel(Head(messages).role)>> \o Head(messages).content \o <<"\n">>
         \o MessageLines(Tail(messages))

AugmentedContext(recent_messages, memory_fields_used, memory_context, final_augmented_context) ==
    [recent_messages |-> recent_messages, memory_fields_used |-> memory_fields_used,
     memory_context |-> memory_context,
     final_augmented_context |-> final_augmented_context]

augment_context(recent_messages, context_usage, summary) ==
    LET recent == IF recent_messages # <<>>
                  THEN LastN(recent_messages, config.RECENT_CONTEXT_SIZE)
                  ELSE <<>>
        memory_fields_used ==
            IF summary = None THEN <<>>
            ELSE SelectSeq(FieldOrder, LAMBDA f : FieldUsed(f, context_usage, summary[1]))
        with_block ==
            IF summary = None THEN <<>>
            ELSE SelectSeq(FieldOrder, LAMBDA f : FieldHasBlock(f, context_usage, summary[1]))
        memory_context_parts ==
            [i \in 1..Len(with_block) |-> FieldBlock(with_block[i], summary[1])]
        memory_context == JoinTexts(memory_context_parts, "\n\n")
        final_parts ==
            (IF recent # <<>>
             THEN << strip(<<"RECENT CONVERSATION:", "\n">> \o MessageLines(recent)) >>
             ELSE <<>>)
            \o (IF memory_context # <<>>
                THEN << <<"MEMORY CONTEXT:", "\n">> \o memory_context >>
                ELSE <<>>)
    IN  AugmentedContext(recent, memory_fields_used, memory_context,
                         JoinTexts(final_parts, "\n\n"))

(***************************************************************************)
(* clarifier.py                                                            *)
(***************************************************************************)
QUESTION == <<"which one?">>

ClarificationResult(needs_clarification, clarifying_questions) ==
    [needs_clarification |-> needs_clarification,
     clarifying_questions |-> clarifying_questions]

\* the object json.loads returns for a decision response
DecideObject(response) ==
    CASE response = "no" ->
           [needs_clarification |-> FALSE, clarifying_questions |-> <<>>]
      [] response = "no1" ->
           [needs_clarification |-> FALSE, clarifying_questions |-> <<QUESTION>>]
      [] response = "yes0" ->
           [needs_clarification |-> TRUE, clarifying_questions |-> <<>>]
      [] response = "yes1" ->
           [needs_clarification |-> TRUE, clarifying_questions |-> <<QUESTION>>]
      [] response = "yes4" ->
           [needs_clarification |-> TRUE,
            clarifying_questions |-> <<QUESTION, <<"where?">>, <<"when?">>, <<"why?">>>>]
      [] OTHER -> <<>>

DecideCallRaises(response) == response = "raise" \/ JsonNotObject(response)

\* mutant: the last three questions are kept
check_clarification_needed_last(response) ==
    IF JsonInvalid(response)
    THEN ClarificationResult(FALSE, <<>>)
    ELSE LET data == DecideObject(response)
             questions == Get(data, "clarifying_questions", <<>>)
         IN  ClarificationResult(Get(data, "needs_clarification", FALSE),
                                 IF Len(questions) > 3 THEN LastN(questions, 3)
                                 ELSE questions)

\* mutant: the fallback asks back
check_clarification_needed_asks(response) ==
    IF JsonInvalid(response)
    THEN ClarificationResult(TRUE, <<>>)
    ELSE LET data == DecideObject(response)
             questions == Get(data, "clarifying_questions", <<>>)
         IN  ClarificationResult(Get(data, "needs_clarification", FALSE),
                                 IF Len(questions) > 3 THEN FirstN(questions, 3)
                                 ELSE questions)

\* check_clarification_needed, given the response of llm_client.chat (when it returns)
check_clarification_needed(response) ==
    IF JsonInvalid(response)
    THEN ClarificationResult(FALSE, <<>>)
    ELSE LET data == DecideObject(response)
             questions == Get(data, "clarifying_questions", <<>>)
         IN  ClarificationResult(Get(data, "needs_clarification", FALSE),
                                 IF Len(questions) > 3 THEN FirstN(questions, 3)
                                 ELSE questions)

(***************************************************************************)
(* answer.py                                                               *)
(***************************************************************************)
AnswerText(response) == IF response = "blank" THEN BLANK_TEXT ELSE ANSWER_TEXT

\* generate_answer, given the response of llm.chat (when it returns)
generate_answer(response) == strip(AnswerText(response))

(***************************************************************************)
(* pipeline.py: QueryPipeline                                              *)
(***************************************************************************)
\* mutant: the result never reports a compaction
PipelineResult_unflagged(needs_clarification, response, summarized) ==
    [kind |-> "returned", needs_clarification |-> needs_clarification,
     response |-> response, was_summarized |-> FALSE]

PipelineResult(needs_clarification, response, summarized) ==
    [kind |-> "returned", needs_clarification |-> needs_clarification,
     response |-> response, was_summarized |-> summarized]

\* the call ended by raising
Raised == [kind |-> "raised", needs_clarification |-> FALSE,
           response |-> <<>>, was_summarized |-> FALSE]

\* the call ended by raising the named exception
RaisedError(name) ==
    [kind |-> "raised", needs_clarification |-> FALSE, response |-> <<>>,
     was_summarized |-> FALSE, error |-> name]

\* no call has ended
NoResult == [kind |-> "none", needs_clarification |-> FALSE,
             response |-> <<>>, was_summarized |-> FALSE]

RECURSIVE NumberedList(_, _)
NumberedList(questions, i) ==
    IF i > Len(questions) THEN <<>>
    ELSE <<Numbering[i]>> \o questions[i] \o NumberedList(questions, i + 1)

_format_clarification_questions(questions) ==
    IF questions = <<>> THEN DEFAULT_QUESTION
    ELSE IF Len(questions) = 1 THEN questions[1]
    ELSE strip(HEADER \o NumberedList(questions, 1))

\* rewrite_result.rewritten_query or query
effective_query(r, q) == IF Truthy(r.rewritten_query) THEN r.rewritten_query[1] ELSE q

\* mutant: the forced answer comes one round late
ForceAnswer_late(current_count) == current_count > config.MAX_CLARIFICATION_ROUNDS

\* mutant: with MAX_CLARIFICATION_ROUNDS = 0 the answer is never forced
ForceAnswer_positive(current_count) ==
    /\ config.MAX_CLARIFICATION_ROUNDS > 0
    /\ current_count >= config.MAX_CLARIFICATION_ROUNDS

\* the branch of the decision logic after increment_clarification
ForceAnswer(current_count) == current_count >= config.MAX_CLARIFICATION_ROUNDS

(***************************************************************************)
(* The state machine.                                                      *)
(***************************************************************************)
\* no stage of the call has had a response from llm.chat
NoResponses == [rewrite |-> "none", decide |-> "none", answer |-> "none", calls |-> 0]

NoCompaction ==
    [checked |-> FALSE, due |-> "none", response |-> "unused",
     ret |-> FALSE, raised |-> FALSE, fired |-> "none", call |-> NoCall]

Configs ==
    [MAX_CLARIFICATION_ROUNDS : 0..MaxRoundsBound,
     KEEP_RECENT_N : 1..MaxKeepRecent,
     TOKEN_THRESHOLD_RAW : {RawThreshold},
     SUMMARY_TOKEN_THRESHOLD : {SummaryThreshold},
     LIGHT_CONTEXT_SIZE : {LightContextSize},
     RECENT_CONTEXT_SIZE : {RecentContextSize}]

\* the ids a session file can have
SessionIds == {"s1", "s2"}

\* os.path.exists(filepath) is false
Missing == [kind |-> "missing"]

\* the manager has id s1 and SESSION_DATA_DIR holds no session file
Unsaved ==
    /\ session_id = Some("s1")
    /\ disk = [id \in SessionIds |-> Missing]

InitCall ==
    /\ pc = "idle"
    /\ op = "none"
    /\ query = <<>>
    /\ was_summarized = FALSE
    /\ rewrite_result = None
    /\ augmented_context = None
    /\ clarification_result = None
    /\ result = NoResult
    /\ pre = None
    /\ compaction = NoCompaction
    /\ oracle = NoResponses
    /\ add_turn_calls = 0
    /\ turns_since_summarization = 0
    /\ kept_by_summarization = 0
    /\ decide_streak = 0

\* SessionManager(llm_client=llm) and QueryPipeline(session, llm), as main.py builds them
Init ==
    /\ config \in Configs
    /\ state = SessionState
    /\ llm_client = TRUE
    /\ Unsaved
    /\ InitCall

StreakCap == MaxRoundsBound + 2

\* what is remembered of the session when a call starts
Snapshot ==
    [state |-> state, add_turn_calls |-> add_turn_calls,
     session_id |-> session_id, disk |-> disk]

\* cap of clarification_count under direct increment_clarification calls
MaxDirectCount == MaxRoundsBound + 1

\* the history kept of a check_and_summarize call
CompactionRecord(st, llm, response, r) ==
    [checked |-> TRUE, due |-> CompactionDue(st, llm), response |-> response,
     ret |-> r.ret, raised |-> r.raised, fired |-> r.fired, call |-> r.call]

\* the history kept when add_turn is called
RecordAddTurn ==
    /\ add_turn_calls' = add_turn_calls + 1
    /\ turns_since_summarization' = turns_since_summarization + 1
    /\ UNCHANGED kept_by_summarization

\* the history kept when check_and_summarize has run
RecordCompaction(r) ==
    /\ turns_since_summarization' =
          IF r.fired = "summarization" THEN 0 ELSE turns_since_summarization
    /\ kept_by_summarization' =
          IF r.fired = "summarization" THEN Len(r.state.raw_messages)
          ELSE kept_by_summarization
    /\ UNCHANGED add_turn_calls

\* pipeline.process(query) is called
Process ==
    /\ pc = "idle"
    /\ llm_client
    /\ state.total_turns < MaxTurns
    /\ \E q \in Queries : query' = q
    /\ pc' = "compaction"
    /\ op' = "process"
    /\ pre' = Some(Snapshot)
    /\ UNCHANGED <<sessionVars, was_summarized, rewrite_result, augmented_context,
                   clarification_result, result, compaction, oracle, historyVars>>

\* pipeline.process_and_record(query) is called
ProcessAndRecord ==
    /\ pc = "idle"
    /\ llm_client
    /\ state.total_turns < MaxTurns
    /\ \E q \in Queries : query' = q
    /\ pc' = "compaction"
    /\ op' = "process_and_record"
    /\ pre' = Some(Snapshot)
    /\ UNCHANGED <<sessionVars, was_summarized, rewrite_result, augmented_context,
                   clarification_result, result, compaction, oracle, historyVars>>

\* Step 0: was_summarized = self.session.check_and_summarize()
CompactionCheck ==
    /\ pc = "compaction"
    /\ \E response \in CompactionResponses(state, llm_client) :
          LET r == check_and_summarize(state, llm_client, response) IN
          /\ state' = r.state
          /\ was_summarized' = r.ret
          /\ compaction' = CompactionRecord(state, llm_client, response, r)
          /\ pc' = IF r.raised THEN "returned" ELSE "rewrite"
          /\ result' = IF r.raised THEN Raised ELSE result
          /\ oracle' = [oracle EXCEPT !.calls = IF r.call.made THEN @ + 1 ELSE @]
          /\ RecordCompaction(r)
    /\ UNCHANGED <<config, llm_client, session_id, disk, op, query, rewrite_result, augmented_context,
                   clarification_result, pre, decide_streak>>

\* mutant: an unparsable rewrite response is asked for again
Rewrite_retrying ==
    /\ pc = "rewrite"
    /\ \E response \in RewriteResponses :
          /\ oracle' = [oracle EXCEPT !.rewrite = response, !.calls = @ + 1]
          /\ IF RewriteCallRaises(response)
             THEN /\ pc' = "returned"
                  /\ result' = Raised
                  /\ UNCHANGED rewrite_result
             ELSE IF JsonInvalid(response)
             THEN UNCHANGED <<pc, rewrite_result, result>>
             ELSE /\ pc' = "augment"
                  /\ rewrite_result' =
                       Some(rewrite_query(query, get_light_context(state), response))
                  /\ UNCHANGED result
    /\ UNCHANGED <<sessionVars, op, query, was_summarized, augmented_context,
                   clarification_result, pre, compaction, historyVars>>

\* Step 1: rewrite_result = rewrite_query(...)
Rewrite ==
    /\ pc = "rewrite"
    /\ \E response \in RewriteResponses :
          /\ oracle' = [oracle EXCEPT !.rewrite = response, !.calls = @ + 1]
          /\ IF RewriteCallRaises(response)
             THEN /\ pc' = "returned"
                  /\ result' = Raised
                  /\ UNCHANGED rewrite_result
             ELSE /\ pc' = "augment"
                  /\ rewrite_result' =
                       Some(rewrite_query(query, get_light_context(state), response))
                  /\ UNCHANGED result
    /\ UNCHANGED <<sessionVars, op, query, was_summarized, augmented_context,
                   clarification_result, pre, compaction, historyVars>>

\* mutant: the assembler cuts the session's log down to the window it keeps
Augment_truncating ==
    /\ pc = "augment"
    /\ augmented_context' =
          Some(augment_context(get_recent_messages(state, None),
                               rewrite_result[1].context_usage, state.summary))
    /\ state' = [state EXCEPT !.raw_messages = LastN(@, config.LIGHT_CONTEXT_SIZE)]
    /\ pc' = "decide"
    /\ UNCHANGED <<config, llm_client, session_id, disk, op, query, was_summarized,
                   rewrite_result, clarification_result, result, pre, compaction, oracle,
                   historyVars>>

\* Step 2: augmented_context = augment_context(...)
Augment ==
    /\ pc = "augment"
    /\ augmented_context' =
          Some(augment_context(get_recent_messages(state, None),
                               rewrite_result[1].context_usage, state.summary))
    /\ pc' = "decide"
    /\ UNCHANGED <<sessionVars, op, query, was_summarized, rewrite_result,
                   clarification_result, result, pre, compaction, oracle, historyVars>>

\* Step 3: check_clarification_needed(...) and the decision logic up to the answer call
Decide ==
    /\ pc = "decide"
    /\ \E response \in DecideResponses :
          /\ oracle' = [oracle EXCEPT !.decide = response, !.calls = @ + 1]
          /\ IF DecideCallRaises(response)
             THEN /\ pc' = "returned"
                  /\ result' = Raised
                  /\ UNCHANGED <<state, clarification_result, decide_streak>>
             ELSE LET cr == check_clarification_needed(response)
                      counted == increment_clarification(state)
                  IN  /\ clarification_result' = Some(cr)
                      /\ decide_streak' =
                           IF cr.needs_clarification
                           THEN (IF decide_streak < StreakCap THEN decide_streak + 1
                                 ELSE decide_streak)
                           ELSE 0
                      /\ IF cr.needs_clarification
                         THEN IF ForceAnswer(counted.clarification_count)
                              THEN /\ state' = reset_clarification(counted)
                                   /\ pc' = "forced_answer"
                                   /\ UNCHANGED result
                              ELSE /\ state' = counted
                                   /\ pc' = "returned"
                                   /\ result' = PipelineResult(TRUE,
                                         _format_clarification_questions(cr.clarifying_questions),
                                         was_summarized)
                         ELSE /\ state' = reset_clarification(state)
                              /\ pc' = "answer"
                              /\ UNCHANGED result
    /\ UNCHANGED <<config, llm_client, session_id, disk, op, query, was_summarized, rewrite_result,
                   augmented_context, pre, compaction, add_turn_calls,
                   turns_since_summarization, kept_by_summarization>>

\* mutant: process_and_record records the effective (rewritten) query
ReturnAnswer_effective(answer) ==
    /\ result' = PipelineResult(FALSE, answer, was_summarized)
    /\ pc' = "returned"
    /\ IF op = "process_and_record"
       THEN /\ state' = add_turn(state, effective_query(rewrite_result[1], query), answer)
            /\ RecordAddTurn
       ELSE UNCHANGED <<state, add_turn_calls, turns_since_summarization,
                        kept_by_summarization>>

\* process returns `answer`; process_and_record then records the turn
ReturnAnswer(answer) ==
    /\ result' = PipelineResult(FALSE, answer, was_summarized)
    /\ pc' = "returned"
    /\ IF op = "process_and_record"
       THEN /\ state' = add_turn(state, query, answer)
            /\ RecordAddTurn
       ELSE UNCHANGED <<state, add_turn_calls, turns_since_summarization,
                        kept_by_summarization>>

\* the answering branch: generate_answer(...)
Answer ==
    /\ pc = "answer"
    /\ \E response \in AnswerResponses :
          /\ oracle' = [oracle EXCEPT !.answer = response, !.calls = @ + 1]
          /\ IF response = "raise"
             THEN /\ pc' = "returned"
                  /\ result' = Raised
                  /\ UNCHANGED <<state, add_turn_calls, turns_since_summarization,
                                 kept_by_summarization>>
             ELSE ReturnAnswer(generate_answer(response))
    /\ UNCHANGED <<config, llm_client, session_id, disk, op, query, was_summarized, rewrite_result,
                   augmented_context, clarification_result, pre, compaction, decide_streak>>

\* mutant: the forced branch lets the failure of generate_answer through
ForcedAnswer_raising ==
    /\ pc = "forced_answer"
    /\ \E response \in AnswerResponses :
          /\ oracle' = [oracle EXCEPT !.answer = response, !.calls = @ + 1]
          /\ IF response = "raise"
             THEN /\ pc' = "returned"
                  /\ result' = Raised
                  /\ UNCHANGED <<state, add_turn_calls, turns_since_summarization,
                                 kept_by_summarization>>
             ELSE ReturnAnswer(generate_answer(response))
    /\ UNCHANGED <<config, llm_client, session_id, disk, op, query, was_summarized, rewrite_result,
                   augmented_context, clarification_result, pre, compaction, decide_streak>>

\* the forced branch: _generate_forced_answer(...)
ForcedAnswer ==
    /\ pc = "forced_answer"
    /\ \E response \in AnswerResponses :
          /\ oracle' = [oracle EXCEPT !.answer = response, !.calls = @ + 1]
          /\ ReturnAnswer(IF response = "raise" THEN APOLOGY
                          ELSE generate_answer(response))
    /\ UNCHANGED <<config, llm_client, session_id, disk, op, query, was_summarized, rewrite_result,
                   augmented_context, clarification_result, pre, compaction, decide_streak>>

\* the result of this turn is a forced answer
Forced ==
    /\ result.kind = "returned"
    /\ ~result.needs_clarification
    /\ clarification_result # None
    /\ clarification_result[1].needs_clarification

\* the caller has the result; the next call can start
Return ==
    /\ pc = "returned"
    /\ pc' = "idle"
    /\ op' = "none"
    /\ query' = <<>>
    /\ was_summarized' = FALSE
    /\ rewrite_result' = None
    /\ augmented_context' = None
    /\ clarification_result' = None
    /\ result' = NoResult
    /\ pre' = None
    /\ compaction' = NoCompaction
    /\ oracle' = NoResponses
    /\ decide_streak' = IF Forced THEN 0 ELSE decide_streak
    /\ UNCHANGED <<sessionVars, add_turn_calls, turns_since_summarization,
                   kept_by_summarization>>

Next ==
    \/ Process
    \/ ProcessAndRecord
    \/ CompactionCheck
    \/ Rewrite
    \/ Augment
    \/ Decide
    \/ Answer
    \/ ForcedAnswer
    \/ Return

Spec == Init /\ [][Next]_vars

\* a stage that has been reached runs: the code of process is sequential and
\* llm_client.chat is a blocking call that returns or raises
StagesRun ==
    /\ WF_vars(CompactionCheck)
    /\ WF_vars(Rewrite)
    /\ WF_vars(Augment)
    /\ WF_vars(Decide)
    /\ WF_vars(Answer)
    /\ WF_vars(ForcedAnswer)

\* the configuration with the largest bounds
LiveConfigs ==
    {c \in Configs : /\ c.MAX_CLARIFICATION_ROUNDS = MaxRoundsBound
                     /\ c.KEEP_RECENT_N = MaxKeepRecent}

InitLive ==
    /\ config \in LiveConfigs
    /\ state = SessionState
    /\ llm_client = TRUE
    /\ Unsaved
    /\ InitCall

SpecLive == InitLive /\ [][Next]_vars /\ StagesRun

(***************************************************************************)
(* The Session Store called directly, as the tests and the UI do.          *)
(***************************************************************************)
\* a SessionManager method returned
StoreReturn == [kind |-> "returned", needs_clarification |-> FALSE,
                response |-> <<>>, was_summarized |-> FALSE]

RecordedAnswers == {<<"a">>, <<>>}

\* session.add_turn(user_message, assistant_message)
AddTurn ==
    /\ pc = "idle"
    /\ state.total_turns < MaxTurns
    /\ \E u \in Queries, a \in RecordedAnswers : state' = add_turn(state, u, a)
    /\ RecordAddTurn
    /\ pc' = "returned"
    /\ op' = "add_turn"
    /\ pre' = Some(Snapshot)
    /\ result' = StoreReturn
    /\ UNCHANGED <<config, llm_client, session_id, disk, localVars, compaction, decide_streak>>

\* session.check_and_summarize()
CheckAndSummarize ==
    /\ pc = "idle"
    /\ \E response \in CompactionResponses(state, llm_client) :
          LET r == check_and_summarize(state, llm_client, response) IN
          /\ state' = r.state
          /\ compaction' = CompactionRecord(state, llm_client, response, r)
          /\ result' = IF r.raised THEN Raised ELSE StoreReturn
          /\ RecordCompaction(r)
    /\ pc' = "returned"
    /\ op' = "check_and_summarize"
    /\ pre' = Some(Snapshot)
    /\ UNCHANGED <<config, llm_client, session_id, disk, localVars, decide_streak>>

\* session.increment_clarification()
IncrementClarification ==
    /\ pc = "idle"
    /\ state.clarification_count < MaxDirectCount
    /\ state' = increment_clarification(state)
    /\ pc' = "returned"
    /\ op' = "increment_clarification"
    /\ pre' = Some(Snapshot)
    /\ result' = StoreReturn
    /\ UNCHANGED <<config, llm_client, session_id, disk, localVars, compaction, historyVars>>

\* session.reset_clarification()
ResetClarification ==
    /\ pc = "idle"
    /\ state' = reset_clarification(state)
    /\ pc' = "returned"
    /\ op' = "reset_clarification"
    /\ pre' = Some(Snapshot)
    /\ result' = StoreReturn
    /\ UNCHANGED <<config, llm_client, session_id, disk, localVars, compaction, historyVars>>

\* SessionManager(llm_client=None) or SessionManager(llm_client=llm)
InitStore ==
    /\ config \in Configs
    /\ state = SessionState
    /\ llm_client \in BOOLEAN
    /\ Unsaved
    /\ InitCall

NextStore ==
    \/ ProcessAndRecord
    \/ CompactionCheck
    \/ Rewrite
    \/ Augment
    \/ Decide
    \/ Answer
    \/ ForcedAnswer
    \/ Return
    \/ AddTurn
    \/ CheckAndSummarize
    \/ IncrementClarification
    \/ ResetClarification

SpecStore == InitStore /\ [][NextStore]_vars

(***************************************************************************)
(* A saved session loaded again: SessionManager.load(session_id, llm).     *)
(***************************************************************************)
\* two recorded turns, the second one answered with the apology
TwoTurns == add_turn(add_turn(SessionState, <<"q">>, <<"a">>), <<"q">>, APOLOGY)

\* sessions an earlier run has saved: new, after two turns, after a summarization
SavedSessions ==
    {SessionState, TwoTurns,
     _perform_summarization(TwoTurns, "small"),
     _perform_summarization(TwoTurns, "big")}

InitLoad ==
    /\ config \in Configs
    /\ llm_client \in BOOLEAN
    /\ state \in SavedSessions
    /\ Unsaved
    /\ InitCall

NextLoad ==
    \/ AddTurn
    \/ CheckAndSummarize
    \/ IncrementClarification
    \/ ResetClarification
    \/ Return

SpecLoad == InitLoad /\ [][NextLoad]_vars

(***************************************************************************)
(* The context assembler and the window readers, each called directly on   *)
(* a session.                                                              *)
(***************************************************************************)
\* configurations with every window size from 1 up
AugmentConfigs ==
    [MAX_CLARIFICATION_ROUNDS : {MaxRoundsBound},
     KEEP_RECENT_N : 1..MaxKeepRecent,
     TOKEN_THRESHOLD_RAW : {RawThreshold},
     SUMMARY_TOKEN_THRESHOLD : {SummaryThreshold},
     LIGHT_CONTEXT_SIZE : 1..LightContextSize,
     RECENT_CONTEXT_SIZE : 1..RecentContextSize]

\* sessions with and without a summary, with short and long logs
AugmentSessions ==
    SavedSessions
    \cup {_perform_summarization(TwoTurns, "empty"),
          add_turn(_perform_summarization(TwoTurns, "empty"), <<"q">>, <<>>),
          add_turn(_perform_summarization(TwoTurns, "big"), <<"q">>, <<"a">>)}

InitAugment ==
    /\ config \in AugmentConfigs
    /\ llm_client = TRUE
    /\ state \in AugmentSessions
    /\ Unsaved
    /\ InitCall

\* augment_context(recent_messages, context_usage, summary) on the whole log
AugmentContextCall ==
    /\ pc = "idle"
    /\ \E flags \in [ContextFlags -> BOOLEAN] :
          /\ rewrite_result' = Some(RewriteResult(<<"q">>, FALSE, None, <<>>, flags))
          /\ augmented_context' =
                Some(augment_context(state.raw_messages, flags, state.summary))
    /\ pc' = "returned"
    /\ op' = "augment_context"
    /\ pre' = Some(Snapshot)
    /\ result' = StoreReturn
    /\ UNCHANGED <<sessionVars, query, was_summarized, clarification_result, oracle,
                   compaction, historyVars>>

\* session.get_recent_messages(count)
GetRecentMessagesCall ==
    /\ pc = "idle"
    /\ \E count \in {None} \cup {Some(n) : n \in 1..MaxWindow} :
          /\ query' = count
          /\ result' = [StoreReturn EXCEPT !.response = get_recent_messages(state, count)]
    /\ pc' = "returned"
    /\ op' = "get_recent_messages"
    /\ pre' = Some(Snapshot)
    /\ UNCHANGED <<sessionVars, was_summarized, rewrite_result, augmented_context,
                   clarification_result, oracle, compaction, historyVars>>

\* session.get_light_context()
GetLightContextCall ==
    /\ pc = "idle"
    /\ result' = [StoreReturn EXCEPT !.response = get_light_context(state)]
    /\ pc' = "returned"
    /\ op' = "get_light_context"
    /\ pre' = Some(Snapshot)
    /\ UNCHANGED <<sessionVars, localVars, compaction, historyVars>>

NextAugment ==
    \/ AugmentContextCall
    \/ GetRecentMessagesCall
    \/ GetLightContextCall
    \/ Return

SpecAugment == InitAugment /\ [][NextAugment]_vars

(***************************************************************************)
(* A session changed only by add_turn and the compaction check, add_turn   *)
(* being called with every value a caller can pass, None included.         *)
(***************************************************************************)
\* the values of a text argument: None or a text
Nullable(texts) == {None} \cup {Some(t) : t \in texts}

\* session.add_turn(user_message, assistant_message); the history counts the
\* calls that returned
AddTurnCall ==
    /\ pc = "idle"
    /\ state.total_turns < MaxTurns
    /\ Len(state.raw_messages) < MaxLogLen
    /\ \E u \in Nullable(Queries), a \in Nullable(RecordedAnswers) :
          LET r == add_turn_nullable(state, u, a) IN
          /\ query' = <<u, a>>
          /\ state' = r.state
          /\ result' = IF r.raised THEN RaisedError("ValidationError") ELSE StoreReturn
          /\ IF r.raised
             THEN UNCHANGED <<add_turn_calls, turns_since_summarization,
                              kept_by_summarization>>
             ELSE RecordAddTurn
    /\ pc' = "returned"
    /\ op' = "add_turn"
    /\ pre' = Some(Snapshot)
    /\ UNCHANGED <<config, llm_client, session_id, disk, was_summarized, rewrite_result,
                   augmented_context, clarification_result, oracle, compaction,
                   decide_streak>>

InitTurns ==
    /\ config \in Configs
    /\ llm_client \in BOOLEAN
    /\ state \in SavedSessions
    /\ Unsaved
    /\ InitCall

NextTurns ==
    \/ AddTurnCall
    \/ CheckAndSummarize
    \/ Return

SpecTurns == InitTurns /\ [][NextTurns]_vars

(***************************************************************************)
(* session.py: save and load.  A JSON value is a record tagged with its    *)
(* type; a file is missing, truncated (its text is a strict prefix of a    *)
(* JSON document, possibly empty) or complete (it holds a whole document). *)
(***************************************************************************)
JsonNull == [type |-> "null"]
JsonString(text) == [type |-> "string", value |-> text]
JsonNumber(n) == [type |-> "number", value |-> n]
JsonArray(items) == [type |-> "array", items |-> items]

\* open(filepath, "w") emptied the file and the write did not complete
Truncated == [kind |-> "truncated"]

\* the write completed
Complete(data) == [kind |-> "complete", data |-> data]

\* mutant: an empty list is written as null
DumpList_null(items) == IF items = <<>> THEN JsonNull ELSE JsonArray(items)

\* a List field in the dump
DumpList(items) == JsonArray(items)

\* an Optional[str] field in the dump
DumpOptionalString(v) == IF v = None THEN JsonNull ELSE JsonString(v[1])

\* an Optional[int] field in the dump
DumpOptionalNumber(v) == IF v = None THEN JsonNull ELSE JsonNumber(v[1])

\* an Optional[datetime] field in the dump: the ISO 8601 text of the time
DumpOptionalDatetime(v) == IF v = None THEN JsonNull ELSE JsonString(<<"T", v[1]>>)

DumpMessage(m) ==
    [role |-> JsonString(m.role), content |-> JsonString(m.content),
     timestamp |-> DumpOptionalDatetime(m.timestamp)]

DumpSummary(s) ==
    [user_profile |-> [prefs |-> DumpList(s.user_profile.prefs),
                       constraints |-> DumpList(s.user_profile.constraints),
                       background |-> DumpOptionalString(s.user_profile.background)],
     current_goal |-> DumpOptionalString(s.current_goal),
     topics |-> DumpList(s.topics),
     key_facts |-> DumpList(s.key_facts),
     decisions |-> DumpList(s.decisions),
     open_questions |-> DumpList(s.open_questions),
     todos |-> DumpList(s.todos)]

\* self.state.model_dump_json(indent=2), as the document json.load reads back
state_model_dump_json(id, st) ==
    [session_id |-> JsonString(id),
     raw_messages |->
        DumpList([i \in 1..Len(st.raw_messages) |-> DumpMessage(st.raw_messages[i])]),
     summary |-> IF st.summary = None THEN [type |-> "null"]
                 ELSE [type |-> "object", value |-> DumpSummary(st.summary[1])],
     summarized_up_to_turn |-> DumpOptionalNumber(st.summarized_up_to_turn),
     total_turns |-> JsonNumber(st.total_turns),
     clarification_count |-> JsonNumber(st.clarification_count)]

\* the List fields of a document
ListFields(data) ==
    <<data.raw_messages>>
    \o (IF data.summary.type = "null" THEN <<>>
        ELSE LET s == data.summary.value
             IN  <<s.user_profile.prefs, s.user_profile.constraints, s.topics,
                   s.key_facts, s.decisions, s.open_questions, s.todos>>)

\* SessionState.model_validate(data) accepts the document: None is not a list
Validates(data) ==
    \A i \in 1..Len(ListFields(data)) : ListFields(data)[i].type = "array"

ParseOptional(j) == IF j.type = "null" THEN None ELSE Some(j.value)

\* datetime.fromisoformat of an Optional[datetime] field
ParseOptionalDatetime(j) == IF j.type = "null" THEN None ELSE Some(j.value[2])

ParseMessage(j) ==
    Message(j.role.value, j.content.value, ParseOptionalDatetime(j.timestamp))

ParseSummary(j) ==
    SessionSummary(UserProfile(j.user_profile.prefs.items,
                               j.user_profile.constraints.items,
                               ParseOptional(j.user_profile.background)),
                   ParseOptional(j.current_goal), j.topics.items, j.key_facts.items,
                   j.decisions.items, j.open_questions.items, j.todos.items)

\* SessionState.model_validate(data), for a document it accepts
model_validate(data) ==
    [raw_messages |->
        [i \in 1..Len(data.raw_messages.items) |-> ParseMessage(data.raw_messages.items[i])],
     summary |-> IF data.summary.type = "null" THEN None
                 ELSE Some(ParseSummary(data.summary.value)),
     summarized_up_to_turn |-> ParseOptional(data.summarized_up_to_turn),
     total_turns |-> data.total_turns.value,
     clarification_count |-> data.clarification_count.value]

\* what the file system does to a save: the whole text is written, open
\* fails, or the write fails after open emptied the file
SaveOutcomes == {"written", "open fails", "write fails"}

\* the file of the session after save met outcome `outcome`
FileAfterSave(outcome) ==
    CASE outcome = "written" -> Complete(state_model_dump_json(session_id[1], state))
      [] outcome = "open fails" -> disk[session_id[1]]
      [] OTHER -> Truncated

\* session.save()
SaveCall ==
    /\ pc = "idle"
    /\ session_id # None
    /\ \E outcome \in SaveOutcomes :
          /\ disk' = [disk EXCEPT ![session_id[1]] = FileAfterSave(outcome)]
          /\ result' = IF outcome = "written" THEN StoreReturn ELSE RaisedError("OSError")
    /\ pc' = "returned"
    /\ op' = "save"
    /\ pre' = Some(Snapshot)
    /\ UNCHANGED <<config, state, llm_client, session_id, localVars, compaction, historyVars>>

\* the exception load raises on the file of `id`, "none" when it returns
LoadError(id) ==
    CASE disk[id].kind = "missing" -> "FileNotFoundError"
      [] disk[id].kind = "truncated" -> "JSONDecodeError"
      [] ~Validates(disk[id].data) -> "ValidationError"
      [] OTHER -> "none"

\* mutant: a session id without a file starts a new session under that id
LoadCall_creating ==
    /\ pc = "idle"
    /\ \E id \in SessionIds, llm \in BOOLEAN :
          /\ query' = <<id>>
          /\ IF disk[id].kind = "missing"
             THEN /\ state' = SessionState
                  /\ session_id' = Some(id)
                  /\ llm_client' = llm
                  /\ result' = StoreReturn
             ELSE IF LoadError(id) # "none"
             THEN /\ result' = RaisedError(LoadError(id))
                  /\ UNCHANGED <<state, session_id, llm_client>>
             ELSE /\ state' = model_validate(disk[id].data)
                  /\ session_id' = Some(disk[id].data.session_id.value)
                  /\ llm_client' = llm
                  /\ result' = StoreReturn
    /\ pc' = "returned"
    /\ op' = "load"
    /\ pre' = Some(Snapshot)
    /\ UNCHANGED <<config, disk, was_summarized, rewrite_result, augmented_context,
                   clarification_result, oracle, compaction, historyVars>>

\* SessionManager.load(session_id, llm_client), the caller's manager being
\* replaced by the one it returns
LoadCall ==
    /\ pc = "idle"
    /\ \E id \in SessionIds, llm \in BOOLEAN :
          /\ query' = <<id>>
          /\ IF LoadError(id) # "none"
             THEN /\ result' = RaisedError(LoadError(id))
                  /\ UNCHANGED <<state, session_id, llm_client>>
             ELSE /\ state' = model_validate(disk[id].data)
                  /\ session_id' = Some(disk[id].data.session_id.value)
                  /\ llm_client' = llm
                  /\ result' = StoreReturn
    /\ pc' = "returned"
    /\ op' = "load"
    /\ pre' = Some(Snapshot)
    /\ UNCHANGED <<config, disk, was_summarized, rewrite_result, augmented_context,
                   clarification_result, oracle, compaction, historyVars>>

\* SessionManager(llm_client=llm): a new session under an id uuid4 draws
NewSession ==
    /\ pc = "idle"
    /\ \E id \in SessionIds :
          /\ disk[id].kind = "missing"
          /\ session_id # Some(id)
          /\ session_id' = Some(id)
    /\ state' = SessionState
    /\ pc' = "returned"
    /\ op' = "__init__"
    /\ pre' = Some(Snapshot)
    /\ result' = StoreReturn
    /\ UNCHANGED <<config, llm_client, disk, localVars, compaction, historyVars>>

\* one configuration: save and load read only SESSION_DATA_DIR
DiskConfigs ==
    {c \in Configs : /\ c.MAX_CLARIFICATION_ROUNDS = MaxRoundsBound
                     /\ c.KEEP_RECENT_N = MaxKeepRecent}

\* a manager that holds one of the sessions, nothing saved yet
InitDisk ==
    /\ config \in DiskConfigs
    /\ llm_client = TRUE
    /\ state \in AugmentSessions
    /\ Unsaved
    /\ InitCall

NextDisk ==
    \/ SaveCall
    \/ LoadCall
    \/ NewSession
    \/ IncrementClarification
    \/ ResetClarification
    \/ Return

SpecDisk == InitDisk /\ [][NextDisk]_vars

(***************************************************************************)
(* Vocabulary of the properties.                                           *)
(***************************************************************************)
PipelineOps == {"process", "process_and_record"}

\* a pipeline turn has just ended (returned or raised)
AtTurnEnd == pc = "returned" /\ op \in PipelineOps

\* the turn returned a final answer (normal or forced)
Answered == AtTurnEnd /\ result.kind = "returned" /\ ~result.needs_clarification

\* the turn returned a clarification request
Clarifying == AtTurnEnd /\ result.kind = "returned" /\ result.needs_clarification

\* the decide stage of this turn reported needs_clarification = true
DecideAsked == clarification_result # None /\ clarification_result[1].needs_clarification

\* check_and_summarize has just run and nothing else has changed the session since
JustChecked ==
    /\ compaction.checked
    /\ \/ pc = "rewrite"
       \/ pc = "returned" /\ op = "check_and_summarize"
       \/ pc = "returned" /\ op \in PipelineOps /\ compaction.raised

\* the session as it was when the running call started
PreState == pre[1].state

Min(a, b) == IF a < b THEN a ELSE b

\* the last m entries of s, m <= Len(s)
Suffix(s, m) == [i \in 1..m |-> s[Len(s) - m + i]]

(***************************************************************************)
(* Properties.                                                             *)
(***************************************************************************)

\* C1: in every reachable state of a session driven by process /
\* process_and_record, for every configured MaxRounds >= 0,
\* clarification_count is in [0, MaxRounds], and it is 0 at the end of every
\* turn whose result is a final answer (normal or forced).
C1_CountInRange ==
    /\ state.clarification_count \in 0..config.MAX_CLARIFICATION_ROUNDS
    /\ Answered => state.clarification_count = 0

\* a forced answer has reset a counter that stood at MaxRounds - 1 = 1
C1_Witness ==
    /\ Answered
    /\ DecideAsked
    /\ config.MAX_CLARIFICATION_ROUNDS = 2
    /\ PreState.clarification_count = 1
    /\ state.clarification_count = 0

\* the number of consecutive asking turns after which the pipeline forces an answer
RoundsToForce(max_rounds) == IF max_rounds = 0 THEN 1 ELSE max_rounds

\* a turn whose decide stage asked: below `rounds` consecutive asking turns it is
\* answered by a clarification request and the counter is the number of such
\* turns; on the turn that reaches `rounds` the answer is forced and the counter is 0
AskingTurn(rounds) ==
    (AtTurnEnd /\ DecideAsked) =>
        /\ decide_streak = PreState.clarification_count + 1
        /\ decide_streak <= rounds
        /\ IF decide_streak < rounds
           THEN Clarifying /\ state.clarification_count = decide_streak
           ELSE Answered /\ decide_streak = rounds /\ state.clarification_count = 0

\* C2 as stated: starting from clarification_count = 0, every consecutive turn
\* whose decide stage asks increments the counter by one until it reaches
\* MaxRounds; on that turn the answer is forced and the counter reset, so a final
\* answer is produced within MaxRounds consecutive turns.
C2_Original == AskingTurn(config.MAX_CLARIFICATION_ROUNDS)

\* C2 amended: the same, within max(MaxRounds, 1) consecutive turns: with
\* MaxRounds = 0 the first asking turn is the forced one.
C2_ForcedWithinRounds == AskingTurn(RoundsToForce(config.MAX_CLARIFICATION_ROUNDS))

\* the second consecutive asking turn has been answered by force, MaxRounds = 2
C2_Witness ==
    /\ Answered
    /\ DecideAsked
    /\ config.MAX_CLARIFICATION_ROUNDS = 2
    /\ decide_streak = 2

\* the log a process_and_record turn starts from once its compaction check has run
LogAfterCompaction(untouched) ==
    IF compaction.fired = "summarization" /\ ~untouched
    THEN Suffix(PreState.raw_messages,
                Min(config.KEEP_RECENT_N, Len(PreState.raw_messages)))
    ELSE PreState.raw_messages

\* what a process_and_record turn that returned has done to the session; with
\* `untouched` the log of a clarifying turn is the log the turn started with
RecordedTurn(untouched) ==
    (AtTurnEnd /\ op = "process_and_record" /\ result.kind = "returned") =>
        IF result.needs_clarification
        THEN /\ add_turn_calls = pre[1].add_turn_calls
             /\ state.raw_messages = LogAfterCompaction(untouched)
             /\ state.total_turns = PreState.total_turns
             /\ state.clarification_count = PreState.clarification_count + 1
        ELSE /\ add_turn_calls = pre[1].add_turn_calls + 1
             /\ state.total_turns = PreState.total_turns + 1
             /\ state.raw_messages =
                   LogAfterCompaction(FALSE)
                      \o <<Message("user", query, Some(state.total_turns)),
                           Message("assistant", result.response, Some(state.total_turns))>>

\* C3 as stated: process_and_record calls add_turn(original utterance,
\* result.response) exactly once when the result is not a clarification request
\* and never when it is; on a clarifying turn raw_messages and total_turns are
\* unchanged while clarification_count has been incremented by one.
C3_Original == RecordedTurn(TRUE)

\* C3 amended: on a clarifying turn no message is appended and total_turns is
\* unchanged; raw_messages is as the turn's own compaction check left it, which
\* is the log truncated to its most recent KeepRecentN entries when that check
\* summarized, and the unchanged log otherwise.
C3_RecordOnlyAnswered == RecordedTurn(FALSE)

\* a clarifying turn whose compaction check truncated the log
C3_Witness ==
    /\ Clarifying
    /\ op = "process_and_record"
    /\ compaction.fired = "summarization"
    /\ state.raw_messages # PreState.raw_messages
    /\ state.clarification_count = PreState.clarification_count + 1

\* C4: after any sequence of session operations and pipeline turns, total_turns
\* equals the number of add_turn calls made on the session.
C4_TotalTurnsCountsAddTurn == state.total_turns = add_turn_calls

\* two turns are recorded, a summarization has fired and the turn that just
\* ended only asked back
C4_Witness ==
    /\ Clarifying
    /\ state.total_turns = 2
    /\ state.summary # None
    /\ add_turn_calls = 2

\* C5 as stated: between operations, len(raw_messages) is twice the number of
\* turns recorded since the last summarization (since the session start when
\* none has fired).
C5_Original == pc = "idle" => Len(state.raw_messages) = 2 * turns_since_summarization

\* C5 amended: len(raw_messages) is the number of messages the last
\* summarization kept (at most KeepRecentN; 0 when none has fired) plus twice
\* the number of turns recorded since.
C5_LogLength ==
    /\ Len(state.raw_messages) = kept_by_summarization + 2 * turns_since_summarization
    /\ kept_by_summarization <= config.KEEP_RECENT_N
    /\ state.summarized_up_to_turn = None =>
          /\ kept_by_summarization = 0
          /\ Len(state.raw_messages) = 2 * state.total_turns

\* a summarization kept KeepRecentN = 2 messages and one turn was recorded since
C5_Witness ==
    /\ pc = "idle"
    /\ state.summarized_up_to_turn # None
    /\ kept_by_summarization = 2
    /\ turns_since_summarization = 1
    /\ Len(state.raw_messages) = 4

\* C6: immediately after a summarization fires, raw_messages is the most recent
\* min(KeepRecentN, previous length) entries of the previous log in their
\* original order (so len(raw_messages) <= KeepRecentN), and
\* summarized_up_to_turn == total_turns.
C6_AfterSummarization ==
    (JustChecked /\ compaction.fired = "summarization") =>
        /\ state.raw_messages =
              Suffix(PreState.raw_messages,
                     Min(config.KEEP_RECENT_N, Len(PreState.raw_messages)))
        /\ Len(state.raw_messages) <= config.KEEP_RECENT_N
        /\ state.summarized_up_to_turn = Some(state.total_turns)

\* a summarization has cut a log of four messages down to KeepRecentN = 2
C6_Witness ==
    /\ JustChecked
    /\ compaction.fired = "summarization"
    /\ config.KEEP_RECENT_N = 2
    /\ Len(PreState.raw_messages) = 4
    /\ Len(state.raw_messages) = 2

\* a compaction check that found the raw estimate above the threshold, and whose
\* summarizer call returned, returned true and left a summary
SummarizedWhenDue ==
    (compaction.checked /\ compaction.due = "summarization" /\ ~compaction.raised) =>
        /\ compaction.ret
        /\ compaction.fired = "summarization"
        /\ state.summary # None

C8_Claim ==
    (JustChecked /\ compaction.due = "summarization" /\ JsonInvalid(compaction.response)) =>
        /\ ~compaction.ret
        /\ state.summary = PreState.summary
        /\ state.raw_messages = PreState.raw_messages
        /\ state.summarized_up_to_turn = PreState.summarized_up_to_turn

\* C9 as stated: when the compressor oracle returns output that cannot be
\* parsed, the session keeps its previous summary and check_and_summarize
\* returns false.
C9_Claim ==
    (JustChecked /\ compaction.due = "compression" /\ JsonInvalid(compaction.response)) =>
        /\ state.summary = PreState.summary
        /\ ~compaction.ret

\* what the code does in the case of C9: the summary is kept, true is returned
C9_Observed ==
    /\ JustChecked
    /\ compaction.due = "compression"
    /\ JsonInvalid(compaction.response)
    /\ state.summary = PreState.summary
    /\ compaction.ret

\* what the code does in the case of C8: the summary is replaced by an empty one
C8_Observed ==
    /\ JustChecked
    /\ compaction.due = "summarization"
    /\ JsonInvalid(compaction.response)
    /\ PreState.summary # None
    /\ state.summary = Some(_dict_to_session_summary(<<>>))
    /\ state.summary # PreState.summary
    /\ compaction.ret

\* C10: once the session summary is non-null it is never reset to null by any
\* sequence of add_turn, compaction checks, clarification updates or pipeline
\* turns; it is only replaced by another summary.
C10_SummaryNeverNull == [][state.summary # None => state'.summary # None]_vars

\* a compaction has replaced one summary by another
C10_Witness ==
    /\ JustChecked
    /\ compaction.fired # "none"
    /\ PreState.summary # None
    /\ state.summary # None
    /\ state.summary # PreState.summary

\* what C11 says of one check_and_summarize call that returned; `bound` is
\* the condition under which the thresholds are looked at
CompactionRule(bound) ==
    LET summarized == compaction.fired = "summarization"
        compressed == compaction.fired = "compression"
    IN  /\ ~(summarized /\ compressed)
        /\ compaction.ret <=> (summarized \/ compressed)
        /\ summarized <=>
              (bound /\ raw_tokens(PreState) > config.TOKEN_THRESHOLD_RAW)
        /\ compressed <=>
              /\ bound
              /\ ~summarized
              /\ PreState.summary # None
              /\ summary_tokens(PreState) > config.SUMMARY_TOKEN_THRESHOLD
        /\ summarized => state.summarized_up_to_turn = Some(state.total_turns)
        /\ compressed => state.raw_messages = PreState.raw_messages
        /\ compaction.fired = "none" => state = PreState

C12_NoOracleNoCompaction ==
    (JustChecked /\ ~llm_client) =>
        /\ ~compaction.ret
        /\ ~compaction.raised
        /\ state = PreState

\* the check ran without an oracle on a log and a summary both over their thresholds
C12_Witness ==
    /\ JustChecked
    /\ ~llm_client
    /\ raw_tokens(PreState) > config.TOKEN_THRESHOLD_RAW
    /\ PreState.summary # None
    /\ summary_tokens(PreState) > config.SUMMARY_TOKEN_THRESHOLD
    /\ ~compaction.ret

\* C13: a compression event changes only the summary: raw_messages,
\* total_turns, summarized_up_to_turn and clarification_count are left
\* unchanged.
C13_CompressionFrame ==
    (JustChecked /\ compaction.fired = "compression") =>
        /\ state.raw_messages = PreState.raw_messages
        /\ state.total_turns = PreState.total_turns
        /\ state.summarized_up_to_turn = PreState.summarized_up_to_turn
        /\ state.clarification_count = PreState.clarification_count

\* a compression replaced the summary of a session with a longer log than
\* KeepRecentN, turns recorded after the last summarization and a running
\* clarification count
C13_Witness ==
    /\ JustChecked
    /\ compaction.fired = "compression"
    /\ state.summary # PreState.summary
    /\ Len(state.raw_messages) > config.KEEP_RECENT_N
    /\ state.summarized_up_to_turn # Some(state.total_turns)
    /\ state.clarification_count > 0

\* the order in which the position of a pipeline call may move
StageOrder ==
    {<<"idle", "compaction">>,
     <<"compaction", "rewrite">>, <<"compaction", "returned">>,
     <<"rewrite", "augment">>, <<"rewrite", "returned">>,
     <<"augment", "decide">>,
     <<"decide", "answer">>, <<"decide", "forced_answer">>, <<"decide", "returned">>,
     <<"answer", "returned">>, <<"forced_answer", "returned">>,
     <<"returned", "idle">>}

\* an oracle round trip of a stage has been made only after those of the stages before it
RoundTripsInOrder ==
    /\ oracle.rewrite # "none" => compaction.checked
    /\ oracle.decide # "none" => oracle.rewrite # "none" /\ augmented_context # None
    /\ oracle.answer # "none" => oracle.decide # "none"
    /\ augmented_context # None => rewrite_result # None

\* what rewrite and augment have read is the session as the compaction check left it
ReadsAfterCompaction ==
    /\ pc = "augment" =>
          rewrite_result[1].referenced_messages =
             IF rewrite_result[1].is_ambiguous
             THEN LastN(state.raw_messages, config.LIGHT_CONTEXT_SIZE)
             ELSE <<>>
    /\ pc = "decide" =>
          augmented_context[1].recent_messages =
             LastN(state.raw_messages, config.RECENT_CONTEXT_SIZE)
    /\ pc \in {"rewrite", "augment", "decide"} =>
          state = check_and_summarize(PreState, llm_client, compaction.response).state

\* C14: every call of QueryPipeline.process runs its stages in the fixed order
\* compaction check, rewrite, augment, decide, and then answer generation or
\* asking back; no stage and no oracle round trip starts before the previous
\* stage has completed, and rewrite and augment read the session state as it
\* is after the compaction check of the same turn.
C14_StagesInOrder ==
    [][/\ pc' # pc => <<pc, pc'>> \in StageOrder
       /\ RoundTripsInOrder'
       /\ ReadsAfterCompaction']_vars

\* rewrite and augment have read a log that the compaction check of the turn truncated
C14_Witness ==
    /\ pc = "decide"
    /\ compaction.fired = "summarization"
    /\ rewrite_result[1].is_ambiguous
    /\ rewrite_result[1].referenced_messages #
          LastN(PreState.raw_messages, config.LIGHT_CONTEXT_SIZE)
    /\ augmented_context[1].recent_messages #
          LastN(PreState.raw_messages, config.RECENT_CONTEXT_SIZE)

\* C15: when the rewrite oracle response cannot be parsed, the rewrite stage
\* returns is_ambiguous = false, rewritten_query = null, no referenced
\* messages and every context_usage flag false, so the effective query of the
\* turn is the original utterance and the augment stage selects no memory
\* field.
C15_RewriteFallback ==
    (JsonInvalid(oracle.rewrite) /\ rewrite_result # None) =>
        LET r == rewrite_result[1] IN
        /\ r.original_query = query
        /\ ~r.is_ambiguous
        /\ r.rewritten_query = None
        /\ r.referenced_messages = <<>>
        /\ \A f \in ContextFlags : ~r.context_usage[f]
        /\ effective_query(r, query) = query
        /\ augmented_context # None =>
              augmented_context[1].memory_fields_used = <<>>

\* the augment stage ran after an unparsable rewrite response on a session
\* whose summary has every memory field filled
C15_Witness ==
    /\ pc = "decide"
    /\ JsonInvalid(oracle.rewrite)
    /\ state.raw_messages # <<>>
    /\ state.summary # None
    /\ state.summary[1].key_facts # <<>>
    /\ state.summary[1].todos # <<>>
    /\ augmented_context[1].memory_fields_used = <<>>

LastResponse ==
    IF oracle.answer # "none" THEN oracle.answer
    ELSE IF oracle.decide # "none" THEN oracle.decide
    ELSE IF oracle.rewrite # "none" THEN oracle.rewrite
    ELSE compaction.response

\* C17 as stated: for every oracle response text that is not valid per the
\* expected response shape (not JSON, or JSON whose value is not an object of
\* the documented shape), the rewrite, decide, summarize and compress steps
\* recover with their fallback and never surface an error to the caller of
\* process: a call of process fails only on a transport failure.
C17_Claim ==
    (AtTurnEnd /\ result.kind = "raised") => LastResponse = "raise"

\* what the code does: a JSON text whose value is not an object makes the
\* stage raise, and process raises with it
C17_Observed ==
    /\ AtTurnEnd
    /\ result.kind = "raised"
    /\ JsonNotObject(LastResponse)
    /\ oracle.decide = "none"
    /\ JsonNotObject(oracle.rewrite)

\* C18 as stated: every RewriteResult returned by the rewrite stage, for every
\* oracle response, has rewritten_query non-null only if is_ambiguous is true,
\* and its rewritten_query never equals the original query.
C18_Claim ==
    rewrite_result # None =>
        LET r == rewrite_result[1] IN
        /\ r.rewritten_query # None => r.is_ambiguous
        /\ r.rewritten_query # Some(r.original_query)

\* what the code does: a response with a rewritten query and no is_ambiguous
\* flag is passed on as it is
C18_Observed ==
    /\ rewrite_result # None
    /\ oracle.rewrite = "unflagged"
    /\ ~rewrite_result[1].is_ambiguous
    /\ rewrite_result[1].rewritten_query = Some(REWRITTEN)
    /\ pc = "decide"

\* C19 as stated: every ClarificationResult returned by the decide stage, for
\* every oracle response, satisfies needs_clarification = false implies
\* clarifying_questions is empty.
C19_Claim ==
    clarification_result # None =>
        (~clarification_result[1].needs_clarification =>
            clarification_result[1].clarifying_questions = <<>>)

\* what the code does: questions sent with needs_clarification = false are kept
C19_Observed ==
    /\ clarification_result # None
    /\ oracle.decide = "no1"
    /\ ~clarification_result[1].needs_clarification
    /\ clarification_result[1].clarifying_questions = <<QUESTION>>
    /\ pc = "answer"

\* C20: every ClarificationResult returned by the decide stage carries at most
\* 3 clarifying questions: when the oracle returns more than 3, exactly the
\* first 3 are kept in order.
C20_AtMostThreeQuestions ==
    clarification_result # None =>
        LET kept == clarification_result[1].clarifying_questions
            sent == Get(DecideObject(oracle.decide), "clarifying_questions", <<>>)
        IN  /\ Len(kept) <= 3
            /\ Len(kept) = Min(3, Len(sent))
            /\ \A i \in 1..Len(kept) : kept[i] = sent[i]

\* the oracle sent four questions and three were kept
C20_Witness ==
    /\ clarification_result # None
    /\ Len(Get(DecideObject(oracle.decide), "clarifying_questions", <<>>)) = 4
    /\ Len(clarification_result[1].clarifying_questions) = 3
    /\ clarification_result[1].needs_clarification

\* the turn took the forced-answer branch and its answer oracle call failed
ForcedAnswerFailed ==
    /\ AtTurnEnd
    /\ DecideAsked
    /\ oracle.answer = "raise"

\* C21: on the turn where clarification_count reaches MaxRounds, if answer
\* generation fails the pipeline does not raise: it returns a non-clarifying
\* result whose response is the fixed apology string, with
\* clarification_count = 0, and process_and_record records that turn.
C21_ForcedAnswerApology ==
    ForcedAnswerFailed =>
        /\ result = PipelineResult(FALSE, APOLOGY, was_summarized)
        /\ state.clarification_count = 0
        /\ op = "process_and_record" =>
              /\ state.total_turns = PreState.total_turns + 1
              /\ state.raw_messages =
                    LogAfterCompaction(FALSE)
                       \o <<Message("user", query, Some(state.total_turns)),
                            Message("assistant", APOLOGY, Some(state.total_turns))>>

\* with MaxRounds = 2, the second asking turn was forced, its answer call
\* failed and process_and_record recorded the apology
C21_Witness ==
    /\ ForcedAnswerFailed
    /\ op = "process_and_record"
    /\ config.MAX_CLARIFICATION_ROUNDS = 2
    /\ PreState.clarification_count = 1
    /\ state.raw_messages # <<>>
    /\ state.raw_messages[Len(state.raw_messages)].content = APOLOGY

\* C22 as stated: every turn that returns without raising yields a non-empty
\* response, for every oracle output: a final answer is never the empty
\* string and a clarification prompt is never the empty string.
C22_Claim ==
    (AtTurnEnd /\ result.kind = "returned") => result.response # <<>>

\* what the code does: an answer of white space only is stripped to the empty
\* string, returned as the final answer and recorded
C22_Observed ==
    /\ Answered
    /\ op = "process_and_record"
    /\ oracle.answer = "blank"
    /\ result.response = <<>>
    /\ state.raw_messages[Len(state.raw_messages)]
         = Message("assistant", <<>>, Some(state.total_turns))

\* C23 as stated: clarification_count is reset to 0 only by a turn that
\* produces a final answer: a turn that ends by raising an oracle transport
\* failure (in the rewrite, decide or non-forced answer step) leaves
\* clarification_count at the value it had when the turn started.
C23_Claim ==
    (AtTurnEnd /\ result.kind = "raised" /\ LastResponse = "raise"
              /\ oracle.rewrite # "none") =>
        state.clarification_count = PreState.clarification_count

\* what the code does: the counter is reset before generate_answer is called,
\* so a turn whose answer call fails has already lost the count
C23_Observed ==
    /\ AtTurnEnd
    /\ result.kind = "raised"
    /\ oracle.answer = "raise"
    /\ PreState.clarification_count = 1
    /\ state.clarification_count = 0

\* C24: with MaxRounds = 0 the pipeline never asks back: for every sequence of
\* turns and every decision-oracle output, no PipelineResult has
\* needs_clarification = true.
C24_NeverAsksBackAtZero ==
    config.MAX_CLARIFICATION_ROUNDS = 0 =>
        /\ ~(result.kind = "returned" /\ result.needs_clarification)
        /\ state.clarification_count = 0

\* with MaxRounds = 0, a turn after a recorded one returned a final answer
\* although its decide stage asked to clarify
C24_Witness ==
    /\ config.MAX_CLARIFICATION_ROUNDS = 0
    /\ Answered
    /\ DecideAsked
    /\ PreState.total_turns >= 1
    /\ clarification_result[1].clarifying_questions # <<>>

(***************************************************************************)
(* Context assembly                                                        *)
(***************************************************************************)
\* a direct call of augment_context has returned
Assembled == pc = "returned" /\ op = "augment_context"

\* the flags and the result of the returned augment_context call
CallFlags == rewrite_result[1].context_usage
CallResult == augmented_context[1]

\* the flag that selects summary field `f`
FlagOf(f) ==
    CASE f = "user_profile" -> "use_user_profile"
      [] f = "current_goal" -> "use_current_goal"
      [] f = "topics" -> "use_topics"
      [] f = "key_facts" -> "use_key_facts"
      [] f = "decisions" -> "use_decisions"
      [] f = "open_questions" -> "use_open_questions"
      [] OTHER -> "use_todos"

\* the value of summary field `f` holds something
ValueNonEmpty(f, s) ==
    CASE f = "user_profile" ->
           \/ s.user_profile.prefs # <<>>
           \/ s.user_profile.constraints # <<>>
           \/ s.user_profile.background # None
      [] f = "current_goal" -> s.current_goal # None
      [] OTHER -> s[f] # <<>>

Labels == {FieldLabel(FieldOrder[i]) : i \in 1..Len(FieldOrder)}

\* the block labels of a memory context, in the order they appear
LabelsOf(text) == SelectSeq(text, LAMBDA w : w \in Labels)

\* C25: memory_fields_used lists exactly the summary fields whose flag is
\* true and whose value is non-empty, in the fixed order profile, goal,
\* topics, facts, decisions, open questions, todos; memory_context holds
\* exactly one labeled block per recorded field, in that order; without a
\* summary both are empty.
C25_Claim ==
    Assembled =>
        LET selected ==
                IF state.summary = None THEN <<>>
                ELSE SelectSeq(FieldOrder,
                               LAMBDA f : CallFlags[FlagOf(f)]
                                          /\ ValueNonEmpty(f, state.summary[1]))
            used == CallResult.memory_fields_used
        IN  /\ used = selected
            /\ LabelsOf(CallResult.memory_context)
                 = [i \in 1..Len(used) |-> FieldLabel(used[i])]
            /\ state.summary = None =>
                 used = <<>> /\ CallResult.memory_context = <<>>

\* the profile flag is set on a summary whose profile holds nothing: the
\* profile is recorded as used, and no block is written for it
C25_Observed ==
    /\ Assembled
    /\ state.summary # None
    /\ ~ValueNonEmpty("user_profile", state.summary[1])
    /\ CallFlags = [f \in ContextFlags |-> f = "use_user_profile"]
    /\ CallResult.memory_fields_used = <<"user_profile">>
    /\ CallResult.memory_context = <<>>

\* the positions of token `w` in a text
Positions(text, w) == {i \in 1..Len(text) : text[i] = w}

\* C26: final_augmented_context is the recent-conversation block, a blank
\* line, then the memory-context block; the recent block is omitted when no
\* recent message is kept, the memory block when memory_context is empty, and
\* the text is empty when both are.
C26_FinalContextLayout ==
    Assembled =>
        LET final == CallResult.final_augmented_context
            recent == CallResult.recent_messages
            memory == CallResult.memory_context
            heads == Positions(final, "RECENT CONVERSATION:")
            marks == Positions(final, "MEMORY CONTEXT:")
            roles == [i \in 1..Len(recent) |-> RoleLabel(recent[i].role)]
        IN  /\ (final = <<>>) <=> (recent = <<>> /\ memory = <<>>)
            /\ heads = IF recent = <<>> THEN {} ELSE {1}
            /\ Cardinality(marks) = IF memory = <<>> THEN 0 ELSE 1
            /\ final # <<>> => final[1] \notin Whitespace
                               /\ final[Len(final)] \notin Whitespace
            /\ \A p \in marks :
                 /\ p + 1 <= Len(final) /\ final[p + 1] = "\n"
                 /\ SubSeq(final, p + 2, Len(final)) = memory
                 /\ IF recent = <<>> THEN p = 1
                    ELSE /\ p > 2
                         /\ final[p - 1] = "\n\n"
                         /\ final[p - 2] \notin Whitespace
                         /\ "\n\n" \notin {final[i] : i \in 1..(p - 2)}
            /\ LET upto == IF marks = {} THEN Len(final)
                           ELSE (CHOOSE p \in marks : TRUE) - 1
               IN  SelectSeq(SubSeq(final, 1, upto),
                             LAMBDA w : w \in {"USER:", "ASSISTANT:"}) = roles

\* both blocks are present
C26_Witness ==
    /\ Assembled
    /\ CallResult.recent_messages # <<>>
    /\ CallResult.memory_context # <<>>
    /\ Len(CallResult.memory_fields_used) >= 2
    /\ CallResult.final_augmented_context[1] = "RECENT CONVERSATION:"

\* C27: for every window size n >= 1 and every history, get_recent_messages(n)
\* and get_light_context return the last min(n, len) messages in their
\* original order, return normally and leave the session as it was; the
\* context assembler keeps only the most recent RECENT_CONTEXT_SIZE of the
\* messages it is given.
C27_Windows ==
    LET log == state.raw_messages
        Window(n) == Suffix(log, Min(n, Len(log)))
    IN  /\ pc = "returned" /\ op = "get_recent_messages" =>
              /\ result.kind = "returned"
              /\ result.response
                   = Window(IF query = None THEN config.RECENT_CONTEXT_SIZE ELSE query[1])
              /\ state = PreState
        /\ pc = "returned" /\ op = "get_light_context" =>
              /\ result.kind = "returned"
              /\ result.response = Window(config.LIGHT_CONTEXT_SIZE)
              /\ state = PreState
        /\ Assembled =>
              /\ CallResult.recent_messages = Window(config.RECENT_CONTEXT_SIZE)
              /\ state = PreState

\* a window of two messages is read from a log of four
C27_Witness ==
    /\ pc = "returned" /\ op = "get_recent_messages"
    /\ query = Some(2)
    /\ Len(state.raw_messages) = 4
    /\ result.response = <<state.raw_messages[3], state.raw_messages[4]>>

(***************************************************************************)
(* Save and load                                                           *)
(***************************************************************************)
\* a save, a load has ended
Saved == pc = "returned" /\ op = "save"
Loaded == pc = "returned" /\ op = "load"

\* the id the ended load was asked for, and the files it found
LoadedId == query[1]
PreDisk == pre[1].disk

C29_Claim ==
    (Saved /\ result.kind = "raised") => disk = PreDisk

\* the write failed after open emptied the file: the record saved before is
\* gone, and a load of the id would raise
C29_Observed ==
    /\ Saved /\ result.kind = "raised"
    /\ PreDisk[session_id[1]].kind = "complete"
    /\ disk[session_id[1]] = Truncated
    /\ LoadError(session_id[1]) = "JSONDecodeError"

\* C30: loading an id that has no record fails with FileNotFoundError and
\* creates neither a session nor a record; an I/O failure during save is
\* raised to the caller.
C30_MissingAndFailureRaise ==
    /\ (Loaded /\ PreDisk[LoadedId].kind = "missing") =>
          /\ result.kind = "raised"
          /\ result.error = "FileNotFoundError"
          /\ state = PreState
          /\ session_id = pre[1].session_id
          /\ disk = PreDisk
    /\ (Saved /\ result.kind = "returned") =>
          disk[session_id[1]] = Complete(state_model_dump_json(session_id[1], state))
    /\ (Saved /\ result.kind = "raised") =>
          /\ result.error = "OSError"
          /\ state = PreState

\* an id without a file is loaded while the other id has one
C30_Witness ==
    /\ Loaded
    /\ PreDisk[LoadedId].kind = "missing"
    /\ \E id \in SessionIds : PreDisk[id].kind = "complete"
    /\ result.kind = "raised"

(***************************************************************************)
(* The message log                                                         *)
(***************************************************************************)
\* C31: add_turn appends to the end of raw_messages a user message and then
\* an assistant message carrying the same timestamp, increments total_turns
\* by exactly one, neither truncates nor reorders the existing log, and leaves
\* summary, summarized_up_to_turn and clarification_count unchanged.
C31_AddTurnFrame ==
    (pc = "returned" /\ op = "add_turn") =>
        LET old == PreState.raw_messages
            new == state.raw_messages
            n == Len(old)
        IN  /\ Len(new) = n + 2
            /\ SubSeq(new, 1, n) = old
            /\ new[n + 1].role = "user"
            /\ new[n + 1].content \in Queries
            /\ new[n + 2].role = "assistant"
            /\ new[n + 2].content \in RecordedAnswers
            /\ new[n + 1].timestamp # None
            /\ new[n + 2].timestamp = new[n + 1].timestamp
            /\ state.total_turns = PreState.total_turns + 1
            /\ state.summary = PreState.summary
            /\ state.summarized_up_to_turn = PreState.summarized_up_to_turn
            /\ state.clarification_count = PreState.clarification_count

\* a turn is added to a session that has a log, a summary and a positive
\* clarification count
C31_Witness ==
    /\ pc = "returned" /\ op = "add_turn"
    /\ PreState.raw_messages # <<>>
    /\ PreState.summary # None
    /\ PreState.clarification_count > 0
    /\ Len(state.raw_messages) = Len(PreState.raw_messages) + 2

\* the step is the call of add_turn that process_and_record makes
RecordsTurn ==
    /\ op = "process_and_record"
    /\ pc \in {"answer", "forced_answer"}
    /\ add_turn_calls' = add_turn_calls + 1

\* C32: within one call of process, the rewrite, augment, decide and answer
\* steps change no SessionState field: the session changes during a turn only
\* by the compaction check, increment_clarification and reset_clarification
\* (plus add_turn in process_and_record), and the summary changes only by
\* summarization or compression.
C32_StagesReadOnly ==
    [][/\ pc \in {"rewrite", "augment"} => state' = state
       /\ pc = "decide" =>
             \/ state' = state
             \/ state' = increment_clarification(state)
             \/ state' = reset_clarification(state)
             \/ state' = reset_clarification(increment_clarification(state))
       /\ pc \in {"answer", "forced_answer"} =>
             \/ state' = state
             \/ RecordsTurn /\ pc' = "returned"
                /\ state' = add_turn(state, query, result'.response)
       /\ state'.summary # state.summary =>
             /\ pc = "compaction"
             /\ compaction'.fired \in {"summarization", "compression"}
      ]_vars

\* process answered on a session that holds a log and a summary, and no field
\* of the session differs from the start of the call
C32_Witness ==
    /\ pc = "returned" /\ op = "process"
    /\ Answered
    /\ state.raw_messages # <<>>
    /\ state.summary # None
    /\ state = PreState

\* every message of `old` is still in `new`, at the end of which messages may
\* have been added
NothingRemoved(old, new) ==
    Len(new) >= Len(old) /\ SubSeq(new, 1, Len(old)) = old

\* C33: no message is removed from raw_messages without having been passed to
\* the summarizer in the same summarization event: the summarizer receives the
\* full log as it was before truncation together with the existing summary,
\* and truncation happens only in a summarization event.
C33_SummarizedBeforeRemoved ==
    pc = "returned" =>
        /\ ~NothingRemoved(PreState.raw_messages, state.raw_messages) =>
              /\ compaction.fired = "summarization"
              /\ compaction.call.made
              /\ compaction.call.messages = PreState.raw_messages
              /\ compaction.call.existing_summary = PreState.summary
        /\ compaction.fired = "summarization" =>
              /\ compaction.call.messages = PreState.raw_messages
              /\ compaction.call.existing_summary = PreState.summary

\* a summarization of a session that already had a summary removed messages
\* from the log
C33_Witness ==
    /\ pc = "returned"
    /\ compaction.fired = "summarization"
    /\ PreState.summary # None
    /\ Len(state.raw_messages) < Len(PreState.raw_messages)
    /\ compaction.call.messages = PreState.raw_messages

(***************************************************************************)
(* The compaction check within a turn                                      *)
(***************************************************************************)
\* C34: the was_summarized flag of every PipelineResult, on the answering,
\* forced-answer and clarifying branches alike, is true iff the compaction
\* check of that same turn fired (summarization or compression).
C34_FlagIffFired ==
    (AtTurnEnd /\ result.kind = "returned") =>
        /\ compaction.checked
        /\ result.was_summarized <=> compaction.fired \in {"summarization", "compression"}
        /\ result.was_summarized <=> compaction.ret

\* a turn whose compaction check summarized ended with a clarification request
C34_Witness ==
    /\ Clarifying
    /\ compaction.fired = "summarization"
    /\ result.was_summarized

\* `new` is `old` with one user message and then one assistant message added
\* at its end
TurnAppended(old, new) ==
    /\ Len(new) = Len(old) + 2
    /\ SubSeq(new, 1, Len(old)) = old
    /\ new[Len(old) + 1].role = "user"
    /\ new[Len(old) + 2].role = "assistant"

\* `new` is a suffix of `old`
SuffixOf(old, new) == Len(new) <= Len(old) /\ new = Suffix(old, Len(new))

\* C35: every change to raw_messages by any operation is either the append of
\* exactly one user message followed by one assistant message at the end, or
\* the replacement of the log by one of its own suffixes; a message already in
\* the log is never modified or reordered.
C35_AppendOrSuffix ==
    [][\/ state'.raw_messages = state.raw_messages
       \/ TurnAppended(state.raw_messages, state'.raw_messages)
       \/ SuffixOf(state.raw_messages, state'.raw_messages)
      ]_vars

\* add_turn("q", None) raised after it had appended the user message: the
\* log grew by one message
C35_Observed ==
    /\ pc = "returned" /\ op = "add_turn"
    /\ Len(state.raw_messages) = Len(PreState.raw_messages) + 1
    /\ ~TurnAppended(PreState.raw_messages, state.raw_messages)
    /\ ~SuffixOf(PreState.raw_messages, state.raw_messages)

\* the texts the ended add_turn call was given
UserText == query[1]
AssistantText == query[2]

\* C36: add_turn is all-or-nothing: when either text is null the call fails
\* and raw_messages and total_turns are left exactly as they were, so the log
\* never holds a user message without its assistant message.
C36_Claim ==
    (pc = "returned" /\ op = "add_turn" /\ (UserText = None \/ AssistantText = None)) =>
        /\ result.kind = "raised"
        /\ state.raw_messages = PreState.raw_messages
        /\ state.total_turns = PreState.total_turns

\* the assistant text is None: the call raised, total_turns is as it was, and
\* the log ends with the user message of the failed call
C36_Observed ==
    /\ pc = "returned" /\ op = "add_turn"
    /\ UserText # None /\ AssistantText = None
    /\ result.kind = "raised"
    /\ state.total_turns = PreState.total_turns
    /\ state.raw_messages
         = PreState.raw_messages \o <<Message("user", UserText[1], Some(Now(PreState)))>>

\* the roles of a log strictly alternate
Alternates(log) == \A i \in 1..(Len(log) - 1) : log[i].role # log[i + 1].role

\* C37: in every reachable state of a session changed only by add_turn and
\* compaction, the roles in raw_messages strictly alternate and, when the log
\* is non-empty, its last message has role assistant.
C37_Claim ==
    /\ Alternates(state.raw_messages)
    /\ state.raw_messages # <<>> =>
          state.raw_messages[Len(state.raw_messages)].role = "assistant"

\* after a failed add_turn and a completed one the log holds two user
\* messages in a row
C37_Observed ==
    /\ pc = "idle"
    /\ \E i \in 1..(Len(state.raw_messages) - 1) :
          /\ state.raw_messages[i].role = "user"
          /\ state.raw_messages[i + 1].role = "user"
    /\ state.raw_messages[Len(state.raw_messages)].role = "assistant"

(***************************************************************************)
(* The counters of the session                                             *)
(***************************************************************************)
\* C38: total_turns never decreases, and summarized_up_to_turn, once set,
\* never decreases and is always <= total_turns; summarized_up_to_turn is
\* non-null only if summary is non-null.
C38_CountersMonotone ==
    /\ [](state.summarized_up_to_turn # None =>
            /\ state.summary # None
            /\ state.summarized_up_to_turn[1] <= state.total_turns)
    /\ [][/\ state'.total_turns >= state.total_turns
          /\ state.summarized_up_to_turn # None =>
                /\ state'.summarized_up_to_turn # None
                /\ state'.summarized_up_to_turn[1] >= state.summarized_up_to_turn[1]
         ]_vars

\* a session summarized before is summarized again after more turns
C38_Witness ==
    /\ pc = "returned"
    /\ compaction.fired = "summarization"
    /\ PreState.summarized_up_to_turn # None
    /\ state.summarized_up_to_turn[1] > PreState.summarized_up_to_turn[1]
    /\ state.summarized_up_to_turn[1] = state.total_turns

\* C39: if the oracle call of the summarizer or of the compressor raises a
\* transport failure, the error propagates out of the compaction check and the
\* session's raw_messages, summary, summarized_up_to_turn, total_turns and
\* clarification_count are all unchanged; such a failed turn records nothing.
C39_CompactionFailureFrame ==
    (compaction.checked /\ compaction.call.made /\ compaction.response = "raise") =>
        /\ pc = "returned"
        /\ result.kind = "raised"
        /\ compaction.raised /\ ~compaction.ret
        /\ state.raw_messages = PreState.raw_messages
        /\ state.summary = PreState.summary
        /\ state.summarized_up_to_turn = PreState.summarized_up_to_turn
        /\ state.total_turns = PreState.total_turns
        /\ state.clarification_count = PreState.clarification_count
        /\ add_turn_calls = pre[1].add_turn_calls

\* the compressor's call failed in a process_and_record turn of a session
\* with a pending clarification
C39_Witness ==
    /\ pc = "returned" /\ op = "process_and_record"
    /\ compaction.due = "compression"
    /\ compaction.response = "raise"
    /\ state.raw_messages # <<>>
    /\ state.clarification_count > 0
    /\ result.kind = "raised"

(***************************************************************************)
(* Termination of a turn                                                   *)
(***************************************************************************)
\* a call of process is running
InTurn == op \in PipelineOps /\ pc # "returned"

\* the stages of the running call that have called llm_client.chat
StagesThatCalled ==
    (IF compaction.call.made THEN {"compaction"} ELSE {})
    \cup {stage \in {"rewrite", "decide", "answer"} : oracle[stage] # "none"}

\* C40: every call of process terminates after at most four oracle round
\* trips (at most one for compaction, one for rewrite, one for decide, at most
\* one for answer generation), and a turn that returns a clarification request
\* makes no answer-generation call.
C40_TurnTerminates ==
    /\ [](op \in PipelineOps =>
            /\ oracle.calls = Cardinality(StagesThatCalled)
            /\ oracle.calls <= 4)
    /\ [](Clarifying => oracle.answer = "none" /\ oracle.calls <= 3)
    /\ InTurn ~> AtTurnEnd

\* a turn ended after four round trips, the first of them the summarizer's
C40_Witness ==
    /\ AtTurnEnd
    /\ oracle.calls = 4
    /\ compaction.fired = "summarization"
    /\ Answered

====
